---- MODULE Spec2Model ----
(***************************************************************************)
(* A model of the trajectory search of KSP-MGA-Planner: the dedicated      *)
(* worker TrajectoryOptimizer (src/dedicated-workers/                      *)
(* trajectory-optimizer.ts), the chunked evolver it drives and the         *)
(* coordinator that drives the workers.                                    *)
(*                                                                         *)
(* An agent is a vector of reals that TrajectoryCalculator decodes into a  *)
(* trajectory.  The model keeps of an agent what the optimizer observes of *)
(* the trajectory it decodes to: whether the assembly throws, whether the  *)
(* steps hold a NaN, and the total delta-V, the final inclination, the     *)
(* total duration and the circularization delta-V of the trajectory.       *)
(* Costs are kept in tenths (the inclination weight is 0.1).               *)
(***************************************************************************)
EXTENDS Integers, Sequences, FiniteSets, TLC

VARIABLES
    \* ---- one call of _computeTrajectory, iteration by iteration ----
    ct_pc,           \* "idle" | "loop" | "returned" | "thrown"
    ct_agent,        \* the agent argument (randomized in place)
    ct_maxAttempts,  \* the maxAttempts argument
    ct_attempts,     \* the local variable attempts
    ct_calc,         \* the TrajectoryCalculator `trajectory`
    ct_tried,        \* history: the agents of the attempts made, in order
    ct_randomized,   \* history: number of calls of Evolution.randomizeAgent
    ct_resets        \* history: number of calls of trajectory.reset

ct_vars == <<ct_pc, ct_agent, ct_maxAttempts, ct_attempts, ct_calc,
             ct_tried, ct_randomized, ct_resets>>

VARIABLES
    \* ---- the dedicated workers, each a TrajectoryOptimizer ----
    opt,             \* per worker, its fields: settings, bestTrajectory,
                     \* bestDeltaV, newDeltaVs, deltaVs, evolver
    w_pc,            \* per worker, where it is in onWorkerRun:
                     \* "idle" | "evaluating" | "evolving" | "finishing"
    w_input,         \* per worker, the input of the run it is handling
    w_i,             \* per worker, the index of the loop over the chunk
    w_updated,       \* per worker, the indices replaced so far by the run
    f_call,          \* history, per worker: the last call of the fitness closure
    w_run,           \* history, per worker: the last run and what it sent
    \* ---- the cost formula on its own ----
    c_in,            \* the trajectory and settings given to the cost formula
    c_out            \* the cost computed for c_in

opt_vars == <<opt, w_pc, w_input, w_i, w_updated, f_call, w_run>>
cost_vars == <<c_in, c_out>>

VARIABLES
    \* ---- the coordinator and the messages between it and the workers ----
    co,              \* the coordinator: phase, generation, canonical
                     \* population and fitnesses, workers awaited, results
    inbox,           \* per worker, the run request posted and not yet handled
    outbox,          \* per worker, the result message sent and not yet received
    w_gen,           \* history, per worker: the generation of its last request
    p_ret            \* history, per worker: the generation of its last result

pool_vars == <<co, inbox, outbox, w_gen, p_ret>>

VARIABLES
    \* ---- FlybySequence ----
    fs_in,           \* the call: fromString(str, system) or new FlybySequence(system, ids)
    fs_out           \* what the call returned or threw

flyby_vars == <<fs_in, fs_out>>

VARIABLES
    \* ---- the dimension of the agents of a search ----
    d_seq,           \* the body sequence passed to the worker (_sequence)
    d_out            \* the evolver settings made for it, and an agent created

dim_vars == <<d_seq, d_out>>

VARIABLES
    \* ---- an Orbit ----
    o_data,          \* the arguments given to the constructor
    o_orbit,         \* the fields of the Orbit; a vector field is a reference
    o_heap,          \* the THREE.Vector3 objects, by reference
    o_call,          \* history: the last method called and what it returned
    \* ---- the function newton of solveTrueAnomalyAtDate ----
    n_pc,            \* "idle" | "loop" | "returned"
    n_M,             \* the mean anomaly M
    n_n,             \* the local variable n
    n_prevX,         \* the local variable prevX
    n_x,             \* the local variable x
    n_ret            \* what solveTrueAnomalyAtDate returned

VARIABLES
    \* ---- a Trajectory ----
    t_steps,         \* steps
    t_spriteObjects, \* _spriteObjects: the sprites of each step
    t_podSpriteIndex,\* _podSpriteIndex
    t_call,          \* history: the last call of updatePodPosition
    t_orbitObjects,  \* _orbitObjects
    t_groups,        \* the objects in the scene group of each body
    t_maneuvres,     \* maneuvres
    t_flybys,        \* flybys
    t_draws,         \* history: the number of calls of draw
    t_options,       \* history: the options fillResultControls made
    t_text           \* history: what trajectoryToText wrote

traj_vars ==
    <<t_steps, t_spriteObjects, t_podSpriteIndex, t_call, t_orbitObjects,
      t_groups, t_maneuvres, t_flybys, t_draws, t_options, t_text>>
orbit_vars == <<o_data, o_orbit, o_heap, o_call>>
newton_vars == <<n_pc, n_M, n_n, n_prevX, n_x, n_ret>>

\* the variables outside of the search
lib_vars == <<flyby_vars, dim_vars, orbit_vars, newton_vars, traj_vars>>

vars == <<ct_vars, opt_vars, cost_vars, pool_vars, lib_vars>>

-----------------------------------------------------------------------------
(* Bounds of the model *)

\* largest maxAttempts argument given to a direct call of _computeTrajectory
MaxAttemptsArg == 3

\* the size of the population broadcast to a worker that runs alone
PopSize == 4

\* the number of evolve generations of a search
MaxGen == 2

\* the length of the longest string given to FlybySequence.fromString,
\* spaces around it not counted
MaxStrLen == 8

\* the largest number of ids given to the FlybySequence constructor
MaxIds == 3

-----------------------------------------------------------------------------
(* Constants of the program *)

\* the default value of the parameter maxAttempts of _computeTrajectory
DefaultMaxAttempts == 1000

\* the value Infinity of _bestDeltaV: above every total delta-V
Infinity == 1000000

-----------------------------------------------------------------------------
(* Agents and the trajectories they decode to *)

\* An agent whose assembly throws in compute() or recomputeLegsSecondArcs().
ThrowingAgent == [kind |-> "throws", dv |-> 0, inc |-> 0, dur |-> 0, circ |-> 0]
\* An agent whose assembly ends with a NaN in the steps.
NaNAgent == [kind |-> "nan", dv |-> 0, inc |-> 0, dur |-> 0, circ |-> 0]

\* An agent whose assembly ends with an infinite value in the steps.
InfAgent == [kind |-> "inf", dv |-> 0, inc |-> 0, dur |-> 0, circ |-> 0]

BadAgents == {ThrowingAgent, NaNAgent, InfAgent}

GoodAgents(dvs, incs, durs, circs) ==
    [kind : {"ok"}, dv : dvs, inc : incs, dur : durs, circ : circs]

\* The agents of the retry loop and of the chunk runs.
SearchGood == GoodAgents({1, 2}, {0}, {1, 3}, {0})
SearchAgents == BadAgents \cup SearchGood

NoSteps == <<>>

\* TrajectoryCalculator.compute() followed by recomputeLegsSecondArcs():
\* whether the pair throws for the parameters set.
AssemblyThrows(agent) == agent.kind = "throws"

\* The steps the calculator holds after the assembly of `agent`: the steps
\* are identified by the agent they were computed from; an assembly that
\* threw leaves the steps computed so far.
AssembledSteps(agent) ==
    IF AssemblyThrows(agent) THEN <<"partial", agent>> ELSE <<"steps", agent>>

\* Utils.hasNaN(trajectory.steps): the scan of the steps after the assembly,
\* for a value that is not finite
HasNaN(steps) == steps # NoSteps /\ steps[2].kind \in {"nan", "inf"}

\* The calculator after setParameters(settings, agent) and the assembly.
Assembled(agent) == [steps |-> AssembledSteps(agent), anomalies |-> FALSE]

\* The calculator as constructed, and after reset().
FreshCalc == [steps |-> NoSteps, anomalies |-> FALSE]

\* TrajectoryCalculator.totalDeltaV / totalDuration and the final orbit of a
\* computed trajectory.
TotalDeltaV(traj) == traj.steps[2].dv
TotalDuration(traj) == traj.steps[2].dur
FinalInclination(traj) == traj.steps[2].inc
CircDV(traj) == traj.steps[2].circ

\* an attempt that is not checked for NaN
AttemptFailsUnchecked(agent) == AssemblyThrows(agent)

\* An attempt fails: the assembly throws, or the steps hold a NaN.
AttemptFails(agent) == AssemblyThrows(agent) \/ HasNaN(AssembledSteps(agent))

\* _bestTrajectory before any trajectory was stored: undefined
UndefinedTrajectory == [steps |-> <<"undefined">>, anomalies |-> FALSE]

\* The draws of Evolution.randomizeAgent during one call of
\* _computeTrajectory: the n-th call sets the agent to draws[n], and to `rest`
\* once the draws are used up.
Draw(oracle, n) ==
    IF n <= Len(oracle.draws) THEN oracle.draws[n] ELSE oracle.rest

\* The draws followed for the evaluations of a search: none or one failing
\* draw, then a draw that is repeated.
RetryOracles ==
    [draws : {<<>>, <<NaNAgent>>}, rest : SearchGood \cup {ThrowingAgent}]

\* The agents a search creates and tries.
WorkerAgents == SearchGood \cup {ThrowingAgent}

\* The settings passed to a worker.
SettingsSpace == [noInsertion : BOOLEAN, maxDuration : {1, 2}]

Min(a, b) == IF a < b THEN a ELSE b
Max(a, b) == IF a > b THEN a ELSE b
Abs(a) == IF a < 0 THEN -a ELSE a

\* _evolver before the first start run: undefined
NoEvolver == [chunkStart |-> 0, chunkEnd |-> 0, popChunk |-> <<>>,
              fitChunk |-> <<>>, defined |-> FALSE]

DefaultSettings == [noInsertion |-> FALSE, maxDuration |-> 1]

\* The fields of a TrajectoryOptimizer as constructed (lines 12-24), with
\* the settings of onWorkerDataPass.
NewOptimizer(s) ==
    [settings |-> s, bestTrajectory |-> UndefinedTrajectory,
     bestDeltaV |-> Infinity, newDeltaVs |-> <<>>, deltaVs |-> <<>>,
     evolver |-> NoEvolver]

\* the workers of the pool
Workers == {1, 2}

\* the input of a start run and of an evolve run (lines 48, 98, 118)
StartInput(chunkStart, chunkEnd) ==
    [start |-> TRUE, chunkStart |-> chunkStart, chunkEnd |-> chunkEnd,
     population |-> <<>>, fitnesses |-> <<>>]
EvolveInput(population, fitnesses) ==
    [start |-> FALSE, chunkStart |-> 0, chunkEnd |-> 0,
     population |-> population, fitnesses |-> fitnesses]
NoInput == EvolveInput(<<>>, <<>>)

\* history of a fitness call: the agent given, the agent as the call left
\* it, whether the call threw, the cost it returned and, for a trial, the
\* parents that the evolver read to make it (index |-> agent)
NoCall ==
    [called |-> FALSE, agentIn |-> ThrowingAgent, agentOut |-> ThrowingAgent,
     thrown |-> FALSE, cost |-> 0, parents |-> <<>>]
\* history of a run: start or evolve, what it threw, the message it sent,
\* the bestDeltaV of the last message of the search and of the message
\* before it, and the lowest total delta-V and the lowest cost among the
\* trajectories that the search has evaluated
NoRun ==
    [kind |-> "none", thrown |-> "none", sent |-> <<>>, msgBest |-> Infinity,
     prevBest |-> Infinity, minDV |-> Infinity, minCost |-> 10 * Infinity]
NoCost == [given |-> FALSE]
NotComputed == [done |-> FALSE, cost |-> 0, periVelCost |-> 0, durationCost |-> 0]

\* the parts of the model that a specification does not use
OptIdle ==
    /\ opt = [w \in Workers |-> NewOptimizer(DefaultSettings)]
    /\ w_pc = [w \in Workers |-> "idle"]
    /\ w_input = [w \in Workers |-> NoInput]
    /\ w_i = [w \in Workers |-> 0]
    /\ w_updated = [w \in Workers |-> {}]
    /\ f_call = [w \in Workers |-> NoCall]
    /\ w_run = [w \in Workers |-> NoRun]
CostIdle ==
    /\ c_in = NoCost
    /\ c_out = NotComputed
NoRequest == [gen |-> -1, input |-> NoInput]
NoCoordinator ==
    [phase |-> "idle", gen |-> 0, population |-> <<>>, fitnesses |-> <<>>,
     snapshot |-> <<>>, pending |-> {}, results |-> [w \in Workers |-> <<>>]]
NoSequence == <<>>
NoDimension == [done |-> FALSE]
DimIdle ==
    /\ d_seq = NoSequence
    /\ d_out = NoDimension
NoFlybyCall == [call |-> "none"]
NoFlybyResult == [kind |-> "none"]
FlybyIdle ==
    /\ fs_in = NoFlybyCall
    /\ fs_out = NoFlybyResult
NoOrbitCall == [method |-> "none"]
OrbitIdle ==
    /\ o_data = [given |-> FALSE]
    /\ o_orbit = [constructed |-> FALSE]
    /\ o_heap = <<>>
    /\ o_call = NoOrbitCall
NoPodCall == [called |-> FALSE]
NoOptions == [filled |-> FALSE]
NoText == [written |-> FALSE]
TrajIdle ==
    /\ t_steps = <<>>
    /\ t_spriteObjects = <<>>
    /\ t_podSpriteIndex = 0
    /\ t_call = NoPodCall
    /\ t_orbitObjects = <<>>
    /\ t_groups = <<>>
    /\ t_maneuvres = <<>>
    /\ t_flybys = <<>>
    /\ t_draws = 0
    /\ t_options = NoOptions
    /\ t_text = NoText
NewtonIdle ==
    /\ n_pc = "idle"
    /\ n_M = 0
    /\ n_n = 0
    /\ n_prevX = 0
    /\ n_x = 0
    /\ n_ret = [returned |-> FALSE]
\* the parts outside of the search, when a specification uses none
LibIdle == FlybyIdle /\ DimIdle /\ OrbitIdle /\ NewtonIdle /\ TrajIdle
PoolIdle ==
    /\ co = NoCoordinator
    /\ inbox = [w \in Workers |-> NoRequest]
    /\ outbox = [w \in Workers |-> <<>>]
    /\ w_gen = [w \in Workers |-> -1]
    /\ p_ret = [w \in Workers |-> -1]

-----------------------------------------------------------------------------
(* _computeTrajectory(agent, maxAttempts), one loop iteration per step *)

CT_Init ==
    /\ ct_pc = "idle"
    /\ ct_agent = ThrowingAgent
    /\ ct_maxAttempts = 0
    /\ ct_attempts = 0
    /\ ct_calc = FreshCalc
    /\ ct_tried = <<>>
    /\ ct_randomized = 0
    /\ ct_resets = 0

\* lines 144-152: the call, up to the loop
CT_Call(agent, maxAttempts) ==
    /\ ct_pc # "loop"
    /\ ct_pc' = "loop"
    /\ ct_agent' = agent
    /\ ct_maxAttempts' = maxAttempts
    /\ ct_attempts' = 0
    /\ ct_calc' = FreshCalc
    /\ ct_tried' = <<>>
    /\ ct_randomized' = 0
    /\ ct_resets' = 0
    /\ UNCHANGED <<opt_vars, cost_vars, pool_vars, lib_vars>>

\* a loop that makes one attempt too many
CT_LoopConditionOffByOne == ct_attempts <= ct_maxAttempts

\* the loop condition of line 153
CT_LoopCondition == ct_attempts < ct_maxAttempts

\* a failed attempt after which the agent is left as it is
CT_FailedKeepsAgent(drawn) ==
    /\ UNCHANGED <<ct_agent, ct_randomized>>
    /\ ct_calc' = FreshCalc
    /\ ct_resets' = ct_resets + 1
    /\ ct_attempts' = ct_attempts + 1
    /\ ct_pc' = "loop"

\* lines 164-169, the failed branch: randomizeAgent(agent) draws `drawn`
CT_Failed(drawn) ==
    /\ ct_agent' = drawn
    /\ ct_randomized' = ct_randomized + 1
    /\ ct_calc' = FreshCalc
    /\ ct_resets' = ct_resets + 1
    /\ ct_attempts' = ct_attempts + 1
    /\ ct_pc' = "loop"

\* lines 167-168: the attempt succeeded, the calculator is returned
CT_Return ==
    /\ ct_calc' = Assembled(ct_agent)
    /\ ct_pc' = "returned"
    /\ UNCHANGED <<ct_agent, ct_randomized, ct_resets, ct_attempts>>

\* lines 153-172: one iteration of the loop
CT_Iterate ==
    /\ ct_pc = "loop"
    /\ CT_LoopCondition
    /\ ct_tried' = Append(ct_tried, ct_agent)
    /\ IF AttemptFails(ct_agent)
          THEN \E drawn \in SearchAgents : CT_Failed(drawn)
          ELSE CT_Return
    /\ UNCHANGED <<ct_maxAttempts, opt_vars, cost_vars, pool_vars, lib_vars>>

\* line 174: the loop ended without a return
CT_Exhausted ==
    /\ ct_pc = "loop"
    /\ ~CT_LoopCondition
    /\ ct_pc' = "thrown"
    /\ UNCHANGED <<ct_agent, ct_maxAttempts, ct_attempts, ct_calc,
                   ct_tried, ct_randomized, ct_resets, opt_vars, cost_vars,
                   pool_vars, lib_vars>>

CT_Next ==
    \/ \E agent \in SearchAgents, maxAttempts \in 0..MaxAttemptsArg :
          CT_Call(agent, maxAttempts)
    \/ CT_Iterate
    \/ CT_Exhausted

InitCompute == CT_Init /\ OptIdle /\ CostIdle /\ PoolIdle /\ LibIdle

SpecCompute == InitCompute /\ [][CT_Next]_vars

\* the attempts made so far that failed
CT_FailedAttempts == {n \in 1..Len(ct_tried) : AttemptFails(ct_tried[n])}

\* C1: _computeTrajectory makes at most maxAttempts attempts; every failed
\* attempt is followed by one re-randomization of the agent and one reset of
\* the calculator, so that the next attempt starts from a reset calculator;
\* it returns the trajectory of the first attempt that succeeds; and it
\* throws if and only if maxAttempts attempts were made and all failed.
C1_ComputeTrajectoryContract ==
    /\ Len(ct_tried) <= ct_maxAttempts
    /\ ct_attempts = Cardinality(CT_FailedAttempts)
    /\ ct_randomized = Cardinality(CT_FailedAttempts)
    /\ ct_resets = Cardinality(CT_FailedAttempts)
    /\ ct_pc = "loop" => ct_calc = FreshCalc
    /\ ct_pc = "returned" =>
          /\ ct_tried # <<>>
          /\ CT_FailedAttempts = 1..(Len(ct_tried) - 1)
          /\ ct_calc = Assembled(ct_tried[Len(ct_tried)])
          /\ ct_agent = ct_tried[Len(ct_tried)]
    /\ ct_pc \in {"returned", "thrown"} =>
          (ct_pc = "thrown" <=>
              /\ Len(ct_tried) = ct_maxAttempts
              /\ CT_FailedAttempts = 1..ct_maxAttempts)

\* C1 witness: the call threw after two or more failed attempts.
C1_Witness ==
    /\ ct_pc = "thrown"
    /\ ct_maxAttempts >= 2
    /\ Len(ct_tried) = ct_maxAttempts

-----------------------------------------------------------------------------
(* The fitness closure of onWorkerRun (lines 53-92) *)

\* _computeTrajectory(agent, maxAttempts) as one evaluation: the attempts run
\* over the agent given and then the draws of the oracle, up to the first
\* attempt that does not fail.  Past the draws of the oracle every attempt is
\* the one of oracle.rest, so the first success, when there is one, is among
\* the first Len(oracle.draws) + 2 attempts.
ComputeTrajectory(agent, oracle, maxAttempts) ==
    LET Tried(n) == IF n = 0 THEN agent ELSE Draw(oracle, n)
        horizon == Min(maxAttempts, Len(oracle.draws) + 2)
        succeeded == {n \in 0..(horizon - 1) : ~AttemptFails(Tried(n))}
    IN  IF succeeded # {}
          THEN LET first == CHOOSE n \in succeeded :
                                \A m \in succeeded : n <= m
               IN  [thrown |-> FALSE, attempts |-> first,
                    agent |-> Tried(first),
                    trajectory |-> Assembled(Tried(first))]
          ELSE [thrown |-> TRUE, attempts |-> maxAttempts,
                agent |-> Tried(maxAttempts), trajectory |-> FreshCalc]

\* the attempts of the call that failed, and those of them that were
\* followed by another attempt
CT_Failures == {n \in DOMAIN ct_tried : ct_tried[n].kind # "ok"}
CT_Retried == {n \in CT_Failures : n < Len(ct_tried)}

\* C14: when a call of _computeTrajectory has ended, the number of
\* re-randomizations of the agent is the number of failed attempts that were
\* followed by another attempt; one failure then a success make one
\* re-randomization and two attempts; a first success leaves the agent as
\* it is, with no retry.
C14_RandomizedPerRetry ==
    ct_pc \in {"returned", "thrown"} =>
       /\ ct_randomized = Cardinality(CT_Retried)
       /\ (ct_pc = "returned" /\ Cardinality(CT_Failures) = 1) =>
             (ct_randomized = 1 /\ Len(ct_tried) = 2)
       /\ (ct_tried # <<>> /\ ct_tried[1].kind = "ok") =>
             (ct_agent = ct_tried[1] /\ Len(ct_tried) = 1 /\ ct_randomized = 0)

\* C14 amended: when a call of _computeTrajectory has ended, the number of
\* re-randomizations of the agent is the number of failed attempts; every
\* failed attempt was followed by another attempt but the last one of a call
\* that threw, after which the agent was re-randomized all the same; one
\* failure then a success make one re-randomization and two attempts; a
\* first success leaves the agent as it is, with no retry.
C14_RandomizedPerFailure ==
    ct_pc \in {"returned", "thrown"} =>
       /\ ct_randomized = Cardinality(CT_Failures)
       /\ ct_pc = "returned" => CT_Retried = CT_Failures
       /\ (ct_pc = "thrown" /\ ct_maxAttempts > 0) =>
             /\ CT_Failures \ CT_Retried = {ct_maxAttempts}
             /\ ct_randomized = Cardinality(CT_Retried) + 1
       /\ (ct_pc = "returned" /\ Cardinality(CT_Failures) = 1) =>
             (ct_randomized = 1 /\ Len(ct_tried) = 2)
       /\ (ct_tried # <<>> /\ ct_tried[1].kind = "ok") =>
             (ct_agent = ct_tried[1] /\ Len(ct_tried) = 1 /\ ct_randomized = 0)

\* C14 witness: the first attempt failed and the second succeeded.
C14_Witness ==
    /\ ct_pc = "returned"
    /\ Len(ct_tried) = 2
    /\ ct_tried[1].kind = "throws"
    /\ ct_randomized = 1
    /\ ct_agent # ct_tried[1]

\* C13: _computeTrajectory never returns a trajectory whose steps hold a NaN
\* or an infinite value, and an attempt that ends with such steps is handled
\* as one that threw: the agent is re-randomized once, the calculator is
\* reset, the attempt is counted and the loop goes on.
C13_NonFiniteNeverReturned ==
    [][/\ ct_pc' = "returned" =>
            /\ ct_calc'.steps[1] = "steps"
            /\ ct_calc'.steps[2].kind \notin {"nan", "inf"}
       /\ (ct_pc = "loop" /\ ct_attempts < ct_maxAttempts
              /\ ct_agent.kind \in {"nan", "inf", "throws"}) =>
            /\ ct_pc' = "loop"
            /\ ct_randomized' = ct_randomized + 1
            /\ ct_resets' = ct_resets + 1
            /\ ct_attempts' = ct_attempts + 1
            /\ ct_calc' = FreshCalc
            /\ ct_tried' = Append(ct_tried, ct_agent)]_vars

\* C13 witness: a trajectory was returned after an attempt that ended with
\* an infinite value in the steps and one that ended with a NaN.
C13_Witness ==
    /\ ct_pc = "returned"
    /\ \E n, m \in DOMAIN ct_tried :
          ct_tried[n].kind = "inf" /\ ct_tried[m].kind = "nan"

\* The loop of _computeTrajectory, followed iteration by iteration, ends as
\* ComputeTrajectory says for the agent given and the draws that were made.
ComputeTrajectoryAgrees ==
    ct_pc \in {"returned", "thrown"} =>
       LET given == IF ct_tried = <<>> THEN ct_agent ELSE ct_tried[1]
           oracle == [draws |-> SubSeq(ct_tried, 2, Len(ct_tried)),
                      rest |-> ct_agent]
           r == ComputeTrajectory(given, oracle, ct_maxAttempts)
       IN  /\ r.thrown <=> ct_pc = "thrown"
           /\ r.agent = ct_agent
           /\ r.attempts = ct_attempts
           /\ ~r.thrown => r.trajectory = ct_calc

\* lines 72-81: the cost of the insertion that is skipped
PeriVelCost(trajectory, s) ==
    IF s.noInsertion THEN CircDV(trajectory) ELSE 0

\* a duration cost that forgets the clamp at zero
DurationCostUnclamped(trajectory, s) ==
    (TotalDuration(trajectory) - s.maxDuration) * TotalDeltaV(trajectory)

\* lines 84-86: the cost of the duration above the limit
DurationCost(trajectory, s) ==
    LET duration == TotalDuration(trajectory)
        durationOverflow == Max(0, duration - s.maxDuration)
    IN  durationOverflow * TotalDeltaV(trajectory)

\* lines 62-91: the value returned by the fitness closure, in tenths
FitnessCost(trajectory, s) ==
    LET totDV == TotalDeltaV(trajectory)
        lastInc == Abs(FinalInclination(trajectory))
    IN  10 * totDV + totDV * lastInc + 10 * PeriVelCost(trajectory, s)
          + 10 * DurationCost(trajectory, s)

\* a tracker that also takes a trajectory of equal delta-V
IsBetterOrEqual(trajectory, self) == TotalDeltaV(trajectory) <= self.bestDeltaV

\* line 57: the condition of the update of the best trajectory
IsBetter(trajectory, self) == TotalDeltaV(trajectory) < self.bestDeltaV

\* a tracker that takes every trajectory
UpdateBestAlways(self, trajectory) ==
    [self EXCEPT !.bestDeltaV = TotalDeltaV(trajectory),
                 !.bestTrajectory = trajectory]

\* lines 56-60: the update of the best trajectory
UpdateBest(self, trajectory) ==
    IF IsBetter(trajectory, self)
      THEN [self EXCEPT !.bestDeltaV = TotalDeltaV(trajectory),
                        !.bestTrajectory = trajectory]
      ELSE self

\* lines 53-92: one call fitness(agent) on the optimizer `self`; the agent is
\* an array, changed in place by _computeTrajectory
Fitness(self, agent, oracle) ==
    LET r == ComputeTrajectory(agent, oracle, DefaultMaxAttempts)
    IN  IF r.thrown
          THEN [thrown |-> TRUE, self |-> self, agent |-> r.agent, cost |-> 0]
          ELSE LET tracked == UpdateBest(self, r.trajectory)
                   pushed == [tracked EXCEPT !.newDeltaVs =
                                 Append(@, TotalDeltaV(r.trajectory))]
               IN  [thrown |-> FALSE, self |-> pushed, agent |-> r.agent,
                    cost |-> FitnessCost(r.trajectory, self.settings)]

-----------------------------------------------------------------------------
(* Evolution.ChunkedEvolver, as the specification describes it *)

\* new Evolution.ChunkedEvolver(chunkStart, chunkEnd, evolSettings)
NewChunkedEvolver(chunkStart, chunkEnd) ==
    [chunkStart |-> chunkStart, chunkEnd |-> chunkEnd, popChunk |-> <<>>,
     fitChunk |-> <<>>, defined |-> TRUE]

\* the number of agents of the chunk
ChunkSize(evolver) == evolver.chunkEnd - evolver.chunkStart

\* createRandomPopulationChunk(): chunkSize random agents, here `created`
CreateRandomPopulationChunk(evolver, created) ==
    [evolver EXCEPT !.popChunk = created]

\* an evolver that also takes a trial of equal fitness
TrialWinsOrTies(fy, fx) == fy <= fx

\* evolvePopulationChunk: the trial replaces the agent when its fitness is
\* strictly lower
TrialWins(fy, fx) == fy < fx

\* the indices of the population a chunk may pick its three parents from:
\* three distinct agents other than the one at `j`
ParentPicks(population, j) ==
    {pick \in SUBSET (DOMAIN population \ {j}) : Cardinality(pick) = 3}

-----------------------------------------------------------------------------
(* TrajectoryOptimizer.onWorkerDataPass and onWorkerRun *)

\* The oracles of one evaluation: the draws count only when the agent fails.
NoRetry == [draws |-> <<>>, rest |-> ThrowingAgent]
OraclesFor(agent) == IF AttemptFails(agent) THEN RetryOracles ELSE {NoRetry}

\* the chunk ranges given to a worker
ChunkRanges == {<<0, 1>>, <<1, 3>>}

\* a result message that carries the delta-Vs of the run alone
ResultMessageOfRun(self) ==
    [popChunk |-> self.evolver.popChunk, fitChunk |-> self.evolver.fitChunk,
     dVsChunk |-> self.newDeltaVs, bestSteps |-> self.bestTrajectory.steps,
     bestDeltaV |-> self.bestDeltaV]

\* the result message of lines 128-134
ResultMessage(self) ==
    [popChunk |-> self.evolver.popChunk, fitChunk |-> self.evolver.fitChunk,
     dVsChunk |-> self.deltaVs, bestSteps |-> self.bestTrajectory.steps,
     bestDeltaV |-> self.bestDeltaV]

\* history of one call fitness(agent) of worker w, with result r
FitnessCalled(w, agent, r, parents) ==
    f_call' = [f_call EXCEPT ![w] =
        [called |-> TRUE, agentIn |-> agent, agentOut |-> r.agent,
         thrown |-> r.thrown, cost |-> r.cost, parents |-> parents]]

\* history: the trajectories evaluated by the search, with the one of r
Evaluated(w, r) ==
    IF r.thrown THEN w_run[w]
    ELSE [w_run[w] EXCEPT
            !.minDV = Min(@, r.agent.dv),
            !.minCost = Min(@, r.cost)]

\* history: the run of worker w ended by throwing `error`
RunThrew(run, error) == [run EXCEPT !.thrown = error, !.sent = <<>>]

\* lines 40-43: onWorkerDataPass
W_DataPass(w, s) ==
    /\ w_pc[w] = "idle"
    /\ opt' = [opt EXCEPT ![w].settings = s]
    /\ f_call' = [f_call EXCEPT ![w] = NoCall]
    /\ w_run' = [w_run EXCEPT ![w] = NoRun]
    /\ UNCHANGED <<w_pc, w_input, w_i, w_updated>>

\* a run that keeps the delta-Vs pushed by the runs before
KeepNewDeltaVs(self) == self

\* line 46: the delta-Vs pushed by the run are those of the run alone
ResetNewDeltaVs(self) == [self EXCEPT !.newDeltaVs = <<>>]

\* a start run that keeps the best delta-V of the search before
KeepBest(self) == self

\* line 110: the best delta-V of a new search
ResetBest(self) == [self EXCEPT !.bestDeltaV = Infinity]

\* lines 45-113: onWorkerRun with input.start, up to the evaluation of the
\* chunk; createRandomPopulationChunk creates the agents `created`
W_BeginStart(w, chunkStart, chunkEnd, created) ==
    /\ w_pc[w] = "idle"
    /\ Len(created) = chunkEnd - chunkStart
    /\ opt' = [opt EXCEPT ![w] = ResetBest(
          [ResetNewDeltaVs(@) EXCEPT
              !.evolver = CreateRandomPopulationChunk(
                  NewChunkedEvolver(chunkStart, chunkEnd), created)])]
    /\ w_pc' = [w_pc EXCEPT ![w] = "evaluating"]
    /\ w_input' = [w_input EXCEPT ![w] = StartInput(chunkStart, chunkEnd)]
    /\ w_i' = [w_i EXCEPT ![w] = 1]
    /\ w_updated' = [w_updated EXCEPT ![w] = {}]
    /\ w_run' = [w_run EXCEPT ![w] = [NoRun EXCEPT !.kind = "start"]]
    /\ f_call' = [f_call EXCEPT ![w] = NoCall]

\* line 114: evaluateChunkFitness(), the agent at index w_i[w]
W_EvaluateStep(w, oracle) ==
    /\ w_pc[w] = "evaluating"
    /\ LET i == w_i[w]
           r == Fitness(opt[w], opt[w].evolver.popChunk[i], oracle)
           inPlace == [r.self EXCEPT !.evolver.popChunk[i] = r.agent]
       IN  /\ oracle \in OraclesFor(opt[w].evolver.popChunk[i])
           /\ FitnessCalled(w, opt[w].evolver.popChunk[i], r, <<>>)
           /\ IF r.thrown
                THEN /\ opt' = [opt EXCEPT ![w] = inPlace]
                     /\ w_pc' = [w_pc EXCEPT ![w] = "idle"]
                     /\ w_run' = [w_run EXCEPT ![w] =
                                     RunThrew(Evaluated(w, r), "fatal")]
                     /\ UNCHANGED w_i
                ELSE /\ opt' = [opt EXCEPT ![w] =
                           [inPlace EXCEPT !.evolver.fitChunk = Append(@, r.cost)]]
                     /\ w_run' = [w_run EXCEPT ![w] = Evaluated(w, r)]
                     /\ IF i < ChunkSize(opt[w].evolver)
                          THEN /\ w_i' = [w_i EXCEPT ![w] = i + 1]
                               /\ UNCHANGED w_pc
                          ELSE /\ w_pc' = [w_pc EXCEPT ![w] = "finishing"]
                               /\ UNCHANGED w_i
    /\ UNCHANGED <<w_input, w_updated>>

\* the size of the population of a search by the pool of workers: two
\* agents in the chunk of each worker
PoolSize == 2 * Cardinality(Workers)

\* the population as the workers hold it at the moment: at each index, the
\* agent of the chunk of the worker whose range holds the index
LivePopulation ==
    [j \in 1..PoolSize |->
        LET owner == CHOOSE w \in Workers :
                        /\ opt[w].evolver.chunkStart < j
                        /\ j <= opt[w].evolver.chunkEnd
        IN  opt[owner].evolver.popChunk[j - opt[owner].evolver.chunkStart]]

\* an evolver that reads the parents in the chunks of the workers
ParentsReadLive(w, pick) == [j \in pick |-> LivePopulation[j]]

\* lines 117-119: the parents of a trial are read in the population of the
\* input of the run
ParentsRead(w, pick) == [j \in pick |-> w_input[w].population[j]]

\* lines 45-46, 116-119: onWorkerRun without input.start, up to the loop of
\* evolvePopulationChunk(population, fitnesses)
W_BeginEvolve(w, population, fitnesses) ==
    /\ w_pc[w] = "idle"
    /\ opt[w].evolver.defined
    /\ opt' = [opt EXCEPT ![w] = ResetNewDeltaVs(@)]
    /\ w_pc' = [w_pc EXCEPT ![w] = "evolving"]
    /\ w_input' = [w_input EXCEPT ![w] = EvolveInput(population, fitnesses)]
    /\ w_i' = [w_i EXCEPT ![w] = 1]
    /\ w_updated' = [w_updated EXCEPT ![w] = {}]
    /\ w_run' = [w_run EXCEPT ![w] =
          [@ EXCEPT !.kind = "evolve", !.thrown = "none", !.sent = <<>>]]
    /\ f_call' = [f_call EXCEPT ![w] = NoCall]

\* line 119: evolvePopulationChunk, the agent at index w_i[w]: the parents
\* `pick` are read from the population of the input, mutation and crossover
\* give the agent `trial`, which replaces the agent when its fitness is lower
W_EvolveStep(w, pick, trial, oracle) ==
    /\ w_pc[w] = "evolving"
    /\ LET i == w_i[w]
           evolver == opt[w].evolver
           fx == evolver.fitChunk[i]
           r == Fitness(opt[w], trial, oracle)
           fy == r.cost
           replaced == [r.self EXCEPT !.evolver.popChunk[i] = r.agent,
                                      !.evolver.fitChunk[i] = fy]
       IN  /\ pick \in ParentPicks(w_input[w].population, evolver.chunkStart + i)
           /\ oracle \in OraclesFor(trial)
           /\ FitnessCalled(w, trial, r, ParentsRead(w, pick))
           /\ IF r.thrown
                THEN /\ opt' = [opt EXCEPT ![w] = r.self]
                     /\ w_pc' = [w_pc EXCEPT ![w] = "idle"]
                     /\ w_run' = [w_run EXCEPT ![w] =
                                     RunThrew(Evaluated(w, r), "fatal")]
                     /\ UNCHANGED <<w_i, w_updated>>
                ELSE /\ opt' = [opt EXCEPT ![w] =
                           IF TrialWins(fy, fx) THEN replaced ELSE r.self]
                     /\ w_updated' = [w_updated EXCEPT ![w] =
                           IF TrialWins(fy, fx) THEN @ \cup {i} ELSE @]
                     /\ w_run' = [w_run EXCEPT ![w] = Evaluated(w, r)]
                     /\ IF i < ChunkSize(evolver)
                          THEN /\ w_i' = [w_i EXCEPT ![w] = i + 1]
                               /\ UNCHANGED w_pc
                          ELSE /\ w_pc' = [w_pc EXCEPT ![w] = "finishing"]
                               /\ UNCHANGED w_i
    /\ UNCHANGED w_input

\* an evolve run that takes the delta-Vs of all its trials
UpdatedDeltaVsOfTrials(self, input, updated) == self.newDeltaVs

\* lines 115 and 121-123: the delta-Vs of the chunk after the run
UpdatedDeltaVs(self, input, updated) ==
    IF input.start
      THEN self.newDeltaVs
      ELSE [i \in DOMAIN self.deltaVs |->
               IF i \in updated THEN self.newDeltaVs[i] ELSE self.deltaVs[i]]

\* lines 115, 121-134: the end of onWorkerRun
W_Finish(w) ==
    /\ w_pc[w] = "finishing"
    /\ LET kept == [opt[w] EXCEPT !.deltaVs =
                       UpdatedDeltaVs(opt[w], w_input[w], w_updated[w])]
           final == [kept EXCEPT !.bestTrajectory.anomalies = TRUE]
       IN  IF opt[w].bestTrajectory = UndefinedTrajectory
             THEN /\ opt' = [opt EXCEPT ![w] = kept]
                  /\ w_run' = [w_run EXCEPT ![w] = RunThrew(@, "TypeError")]
             ELSE /\ opt' = [opt EXCEPT ![w] = final]
                  /\ w_run' = [w_run EXCEPT ![w] =
                        [@ EXCEPT !.sent = <<ResultMessage(final)>>,
                                  !.prevBest = w_run[w].msgBest,
                                  !.msgBest = final.bestDeltaV]]
    /\ w_pc' = [w_pc EXCEPT ![w] = "idle"]
    /\ UNCHANGED <<w_input, w_i, w_updated, f_call>>

-----------------------------------------------------------------------------
(* One worker, given any sequence of runs *)

\* the settings passed to the worker of a search
SearchSettings == [noInsertion : {FALSE}, maxDuration : {1, 2}]

\* The population broadcast to a worker for an evolve run: the canonical
\* population holds the chunk of the worker as the worker last returned it;
\* `fill` stands at the indices of the other chunks.
PopulationAround(evolver, fill) ==
    [j \in 1..PopSize |->
        IF evolver.chunkStart < j /\ j <= evolver.chunkEnd
          THEN evolver.popChunk[j - evolver.chunkStart] ELSE fill]
FitnessesAround(evolver, fillFitness) ==
    [j \in 1..PopSize |->
        IF evolver.chunkStart < j /\ j <= evolver.chunkEnd
          THEN evolver.fitChunk[j - evolver.chunkStart] ELSE fillFitness]

\* the agent standing at the indices of the other chunks
FillAgent == [kind |-> "ok", dv |-> 2, inc |-> 0, dur |-> 1, circ |-> 0]

InitWorker == CT_Init /\ OptIdle /\ CostIdle /\ PoolIdle /\ LibIdle

WS_DataPass ==
    /\ \E s \in SearchSettings : W_DataPass(1, s)
    /\ UNCHANGED <<ct_vars, cost_vars, pool_vars, lib_vars>>

WS_BeginStart ==
    /\ \E range \in ChunkRanges :
         \E created \in [1..(range[2] - range[1]) -> WorkerAgents] :
            W_BeginStart(1, range[1], range[2], created)
    /\ UNCHANGED <<ct_vars, cost_vars, pool_vars, lib_vars>>

WS_EvaluateStep ==
    /\ w_pc[1] = "evaluating"
    /\ \E oracle \in OraclesFor(opt[1].evolver.popChunk[w_i[1]]) :
          W_EvaluateStep(1, oracle)
    /\ UNCHANGED <<ct_vars, cost_vars, pool_vars, lib_vars>>

\* an evolve run is requested of a worker whose last run returned a result
WS_BeginEvolve ==
    /\ w_run[1].kind # "none"
    /\ w_run[1].thrown = "none"
    /\ W_BeginEvolve(1, PopulationAround(opt[1].evolver, FillAgent),
                     FitnessesAround(opt[1].evolver,
                         FitnessCost(Assembled(FillAgent), opt[1].settings)))
    /\ UNCHANGED <<ct_vars, cost_vars, pool_vars, lib_vars>>

WS_EvolveStep ==
    /\ w_pc[1] = "evolving"
    /\ \E pick \in ParentPicks(w_input[1].population,
                               opt[1].evolver.chunkStart + w_i[1]) :
          \E trial \in WorkerAgents :
             \E oracle \in OraclesFor(trial) :
                W_EvolveStep(1, pick, trial, oracle)
    /\ UNCHANGED <<ct_vars, cost_vars, pool_vars, lib_vars>>

WS_Finish ==
    /\ W_Finish(1)
    /\ UNCHANGED <<ct_vars, cost_vars, pool_vars, lib_vars>>

WS_Next ==
    \/ WS_DataPass
    \/ WS_BeginStart
    \/ WS_EvaluateStep
    \/ WS_BeginEvolve
    \/ WS_EvolveStep
    \/ WS_Finish

SpecWorker == InitWorker /\ [][WS_Next]_vars

\* the worker whose runs the properties below follow
TheWorker == opt[1]
TheRun == w_run[1]
TheCall == f_call[1]

\* the step is one call of the fitness closure by the worker
IsFitnessCall == w_pc[1] \in {"evaluating", "evolving"}

BestPairChanges ==
    \/ opt'[1].bestDeltaV # opt[1].bestDeltaV
    \/ opt'[1].bestTrajectory.steps # opt[1].bestTrajectory.steps

\* the step is a fitness call that computed a trajectory of a total delta-V
\* strictly under _bestDeltaV, and made it the best pair
StrictImprovement ==
    /\ IsFitnessCall
    /\ ~f_call'[1].thrown
    /\ f_call'[1].agentOut.dv < opt[1].bestDeltaV
    /\ opt'[1].bestDeltaV = f_call'[1].agentOut.dv
    /\ opt'[1].bestTrajectory.steps = <<"steps", f_call'[1].agentOut>>

\* the message sent, if any, carries the total delta-V of the steps it carries
MessageIsConsistent(run) ==
    run.sent # <<>> =>
       /\ run.sent[1].bestSteps[1] = "steps"
       /\ run.sent[1].bestDeltaV = run.sent[1].bestSteps[2].dv

\* C3 as stated: the best pair changes only by a strict improvement, both
\* members together, and every message is consistent.
C3_PairChangesOnlyByImprovement ==
    [][/\ BestPairChanges => StrictImprovement
       /\ MessageIsConsistent(w_run'[1])]_vars

\* the step is the beginning of a start run, which resets _bestDeltaV alone
IsStartReset ==
    /\ w_pc[1] = "idle"
    /\ w_pc'[1] = "evaluating"
    /\ opt'[1].bestDeltaV = Infinity
    /\ opt'[1].bestTrajectory = opt[1].bestTrajectory

\* C3 amended: but for the reset of _bestDeltaV at the beginning of a start
\* run, the best pair changes only by a strict improvement, both members
\* together; a trajectory of a strictly lower delta-V always replaces it and
\* one of an equal delta-V never does; and every message is consistent.
C3_PairChangesByImprovementOrReset ==
    [][/\ BestPairChanges => (StrictImprovement \/ IsStartReset)
       /\ (IsFitnessCall /\ ~f_call'[1].thrown
             /\ f_call'[1].agentOut.dv < opt[1].bestDeltaV) => StrictImprovement
       /\ MessageIsConsistent(w_run'[1])]_vars

\* C3 witness: a trajectory of the same delta-V as the best one, with other
\* steps, was evaluated and the first found was kept.
C3_Witness ==
    /\ w_pc[1] = "finishing"
    /\ TheCall.called /\ ~TheCall.thrown
    /\ TheCall.agentOut.dv = TheWorker.bestDeltaV
    /\ TheWorker.bestTrajectory.steps # <<"steps", TheCall.agentOut>>

\* C4: the best trajectory of a message has the lowest cost (the
\* value of the fitness closure) among the trajectories evaluated since the
\* start of the search.
C4_BestIsLowestCost ==
    TheRun.sent # <<>> =>
       FitnessCost([steps |-> TheRun.sent[1].bestSteps, anomalies |-> TRUE],
                   TheWorker.settings) = TheRun.minCost

\* What the tracker keeps instead: the best trajectory of a message has the
\* lowest total delta-V among the trajectories evaluated since the start of
\* the search.
C4_BestIsLowestDeltaV ==
    TheRun.sent # <<>> =>
       /\ TheRun.sent[1].bestDeltaV = TheRun.minDV
       /\ TheRun.sent[1].bestSteps[2].dv = TheRun.minDV

\* C4 witness: after an evolve run the best trajectory is the one of lowest
\* delta-V and not the one of lowest cost.
C4_Witness ==
    /\ TheRun.kind = "evolve"
    /\ TheRun.sent # <<>>
    /\ TheRun.sent[1].bestDeltaV = TheRun.minDV
    /\ FitnessCost([steps |-> TheRun.sent[1].bestSteps, anomalies |-> TRUE],
                   TheWorker.settings) > TheRun.minCost

\* C5: within a search, the bestDeltaV of a message is at most the one of
\* the message before.
C5_BestDeltaVNonIncreasing ==
    (TheRun.kind = "evolve" /\ TheRun.sent # <<>>) =>
       TheRun.sent[1].bestDeltaV <= TheRun.prevBest

\* C5 witness: an evolve run sent a bestDeltaV lower than the message before.
C5_Witness ==
    /\ TheRun.kind = "evolve"
    /\ TheRun.sent # <<>>
    /\ TheRun.sent[1].bestDeltaV < TheRun.prevBest
    /\ TheRun.prevBest < Infinity

\* C6: in an evolve run the agent and the fitness at an index are replaced
\* by the trial and its fitness exactly when the fitness of the trial is
\* strictly lower, the index is then, and only then, added to the indices
\* returned, and every other index of the chunk is left as it is.
C6_StrictImprovementOnly ==
    [][w_pc[1] = "evolving" =>
         LET i == w_i[1]
             old == opt[1].evolver
             new == opt'[1].evolver
             call == f_call'[1]
         IN  /\ \A k \in DOMAIN old.popChunk \ {i} :
                   /\ new.popChunk[k] = old.popChunk[k]
                   /\ new.fitChunk[k] = old.fitChunk[k]
             /\ DOMAIN new.popChunk = DOMAIN old.popChunk
             /\ DOMAIN new.fitChunk = DOMAIN old.fitChunk
             /\ IF ~call.thrown /\ call.cost < old.fitChunk[i]
                  THEN /\ new.popChunk[i] = call.agentOut
                       /\ new.fitChunk[i] = call.cost
                       /\ w_updated'[1] = w_updated[1] \cup {i}
                       /\ i \notin w_updated[1]
                  ELSE /\ new.popChunk[i] = old.popChunk[i]
                       /\ new.fitChunk[i] = old.fitChunk[i]
                       /\ w_updated'[1] = w_updated[1]]_vars

\* C6 witness: at the end of the loop of an evolve run, the last trial had
\* the fitness of the agent and did not replace it, and another trial did.
C6_Witness ==
    /\ w_pc[1] = "finishing"
    /\ TheRun.kind = "evolve"
    /\ TheCall.called /\ ~TheCall.thrown
    /\ TheCall.cost = TheWorker.evolver.fitChunk[w_i[1]]
    /\ TheCall.agentOut # TheWorker.evolver.popChunk[w_i[1]]
    /\ w_updated[1] = {1}
    /\ w_i[1] = 2

\* C16: the popChunk, fitChunk and dVsChunk of every result message have the
\* same length, the chunk size chunkEnd - chunkStart of the start run of
\* the search.
C16_ChunkArraysSameLength ==
    TheRun.sent # <<>> =>
       LET message == TheRun.sent[1]
           size == TheWorker.evolver.chunkEnd - TheWorker.evolver.chunkStart
       IN  /\ <<TheWorker.evolver.chunkStart, TheWorker.evolver.chunkEnd>>
                 \in ChunkRanges
           /\ Len(message.popChunk) = size
           /\ Len(message.fitChunk) = size
           /\ Len(message.dVsChunk) = size

\* C16 witness: an evolve run on a chunk of two agents replaced one of them
\* and sent its result.
C16_Witness ==
    /\ TheRun.kind = "evolve"
    /\ TheRun.sent # <<>>
    /\ Cardinality(w_updated[1]) = 1
    /\ Len(TheRun.sent[1].dVsChunk) = 2

\* C19: in every result message, dVsChunk[i] is the total delta-V of the
\* trajectory of the agent at popChunk[i], for every index i of the chunk.
C19_DeltaVsOfStoredAgents ==
    TheRun.sent # <<>> =>
       LET message == TheRun.sent[1]
       IN  /\ DOMAIN message.dVsChunk = DOMAIN message.popChunk
           /\ \A i \in DOMAIN message.popChunk :
                 /\ message.popChunk[i].kind = "ok"
                 /\ message.dVsChunk[i] = message.popChunk[i].dv

\* C19 witness: an evolve run on a chunk that does not start at 0 replaced
\* its second agent alone; the trial of the first had another delta-V than
\* the agent, which was kept.
C19_Witness ==
    /\ TheRun.kind = "evolve"
    /\ TheRun.sent # <<>>
    /\ TheWorker.evolver.chunkStart > 0
    /\ w_updated[1] = {2}
    /\ TheWorker.newDeltaVs[1] # TheRun.sent[1].dVsChunk[1]

\* C9 as stated: a call of the fitness closure leaves the agent as it is,
\* changes no field of the optimizer and does not throw.
C9_FitnessIsPure ==
    [][IsFitnessCall =>
         /\ f_call'[1].agentOut = f_call'[1].agentIn
         /\ ~f_call'[1].thrown
         /\ opt'[1].bestDeltaV = opt[1].bestDeltaV
         /\ opt'[1].bestTrajectory = opt[1].bestTrajectory
         /\ opt'[1].newDeltaVs = opt[1].newDeltaVs]_vars

\* C9 amended: a call of the fitness closure changes the agent only when the
\* assembly of the agent fails, and then re-randomizes it in place; of the
\* fields of the optimizer it changes only the best pair and _newDeltaVs,
\* to which it appends the total delta-V; it throws only when the assembly
\* failed; and the cost it returns is the cost formula applied to the
\* trajectory of the agent as the call leaves it, under the settings.
C9_FitnessEffects ==
    [][IsFitnessCall =>
         LET call == f_call'[1]
         IN  /\ call.called
             /\ call.agentOut # call.agentIn => call.agentIn.kind # "ok"
             /\ call.agentIn.kind = "ok" => ~call.thrown
             /\ opt'[1].settings = opt[1].settings
             /\ opt'[1].deltaVs = opt[1].deltaVs
             /\ call.thrown =>
                  /\ opt'[1].bestDeltaV = opt[1].bestDeltaV
                  /\ opt'[1].bestTrajectory = opt[1].bestTrajectory
                  /\ opt'[1].newDeltaVs = opt[1].newDeltaVs
             /\ ~call.thrown =>
                  /\ call.agentOut.kind = "ok"
                  /\ call.cost = FitnessCost(Assembled(call.agentOut),
                                             opt[1].settings)
                  /\ opt'[1].newDeltaVs =
                        Append(opt[1].newDeltaVs, call.agentOut.dv)]_vars

\* C9 witness: a call returned a cost after it re-randomized its agent.
C9_Witness ==
    /\ TheCall.called
    /\ ~TheCall.thrown
    /\ TheCall.agentOut # TheCall.agentIn

-----------------------------------------------------------------------------
(* The coordinator and its workers, as the specification describes them *)

\* the agents of a search of the pool: every assembly succeeds
PoolAgents == GoodAgents({1, 2}, {0}, {1}, {0})

\* the chunk of each worker: the ranges partition the population
PoolSplit == PoolSize \div 2
PoolRange(w) == IF w = 1 THEN <<0, PoolSplit>> ELSE <<PoolSplit, PoolSize>>

\* the indices of the population, from 1, that the chunk of worker w holds
PoolIndices(w) == (PoolRange(w)[1] + 1)..PoolRange(w)[2]

\* what a canonical array holds at an index before any chunk is merged there
Unfilled(field) == IF field = "popChunk" THEN ThrowingAgent ELSE 10 * Infinity

\* the canonical array with the chunks of the results merged in, each in
\* the range of its worker
MergeChunks(canonical, results, field) ==
    [j \in 1..PoolSize |->
        LET w == CHOOSE v \in Workers : j \in PoolIndices(v)
        IN  IF results[w] = <<>>
              THEN canonical[j]
              ELSE results[w][1].message[field][j - PoolRange(w)[1]]]

\* a coordinator that goes on as soon as one result is in
BarrierSkipped(c) == c.pending # Workers

\* the coordinator goes on when every chunk has returned its result
BarrierPassed(c) == c.pending = {}

InitPool ==
    /\ CT_Init
    /\ OptIdle
    /\ CostIdle
    /\ LibIdle
    /\ co = [NoCoordinator EXCEPT
               !.population = [j \in 1..PoolSize |-> Unfilled("popChunk")],
               !.fitnesses = [j \in 1..PoolSize |-> Unfilled("fitChunk")]]
    /\ inbox = [w \in Workers |-> NoRequest]
    /\ outbox = [w \in Workers |-> <<>>]
    /\ w_gen = [w \in Workers |-> -1]
    /\ p_ret = [w \in Workers |-> -1]

\* generation 0: every worker is told to seed and evaluate its chunk
PL_DispatchStart ==
    /\ co.phase = "idle"
    /\ co' = [co EXCEPT !.phase = "running", !.gen = 0, !.pending = Workers]
    /\ inbox' = [w \in Workers |->
                   [gen |-> 0,
                    input |-> StartInput(PoolRange(w)[1], PoolRange(w)[2])]]
    /\ UNCHANGED <<ct_vars, opt_vars, cost_vars, lib_vars, outbox, w_gen, p_ret>>

\* a worker takes the start request posted to it
PL_BeginStart ==
    /\ \E w \in Workers :
         /\ inbox[w] # NoRequest
         /\ inbox[w].input.start
         /\ \E created \in [1..Cardinality(PoolIndices(w)) -> PoolAgents] :
               W_BeginStart(w, inbox[w].input.chunkStart,
                            inbox[w].input.chunkEnd, created)
         /\ inbox' = [inbox EXCEPT ![w] = NoRequest]
         /\ w_gen' = [w_gen EXCEPT ![w] = inbox[w].gen]
    /\ UNCHANGED <<ct_vars, cost_vars, lib_vars, co, outbox, p_ret>>

PL_EvaluateStep ==
    /\ \E w \in Workers : W_EvaluateStep(w, NoRetry)
    /\ UNCHANGED <<ct_vars, cost_vars, pool_vars, lib_vars>>

\* a worker takes the evolve request posted to it
PL_BeginEvolve ==
    /\ \E w \in Workers :
         /\ inbox[w] # NoRequest
         /\ ~inbox[w].input.start
         /\ W_BeginEvolve(w, inbox[w].input.population,
                          inbox[w].input.fitnesses)
         /\ inbox' = [inbox EXCEPT ![w] = NoRequest]
         /\ w_gen' = [w_gen EXCEPT ![w] = inbox[w].gen]
    /\ UNCHANGED <<ct_vars, cost_vars, lib_vars, co, outbox, p_ret>>

PL_EvolveStep ==
    /\ \E w \in Workers :
         /\ w_pc[w] = "evolving"
         /\ \E pick \in ParentPicks(w_input[w].population,
                                    opt[w].evolver.chunkStart + w_i[w]) :
               \E trial \in PoolAgents : W_EvolveStep(w, pick, trial, NoRetry)
    /\ UNCHANGED <<ct_vars, cost_vars, pool_vars, lib_vars>>

\* a worker ends its run and posts the result message
PL_Finish ==
    /\ \E w \in Workers :
         /\ W_Finish(w)
         /\ outbox' = [outbox EXCEPT ![w] =
               @ \o [k \in DOMAIN w_run'[w].sent |->
                        [gen |-> w_gen[w], message |-> w_run'[w].sent[k]]]]
         /\ p_ret' = [p_ret EXCEPT ![w] = w_gen[w]]
    /\ UNCHANGED <<ct_vars, cost_vars, lib_vars, co, inbox, w_gen>>

\* the coordinator receives the result of a worker
PL_Receive ==
    /\ \E w \in Workers :
         /\ outbox[w] # <<>>
         /\ co' = [co EXCEPT !.results[w] = <<Head(outbox[w])>>,
                             !.pending = @ \ {w}]
         /\ outbox' = [outbox EXCEPT ![w] = Tail(@)]
    /\ UNCHANGED <<ct_vars, opt_vars, cost_vars, lib_vars, inbox, w_gen, p_ret>>

\* the coordinator merges the chunks returned for the generation
PL_Merge ==
    /\ co.phase = "running"
    /\ BarrierPassed(co)
    /\ co' = [co EXCEPT
          !.phase = "merged",
          !.population = MergeChunks(co.population, co.results, "popChunk"),
          !.fitnesses = MergeChunks(co.fitnesses, co.results, "fitChunk"),
          !.results = [w \in Workers |-> <<>>]]
    /\ UNCHANGED <<ct_vars, opt_vars, cost_vars, lib_vars, inbox, outbox, w_gen, p_ret>>

\* the next generation: the whole population is broadcast to every worker
PL_DispatchEvolve ==
    /\ co.phase = "merged"
    /\ co.gen < MaxGen
    /\ co' = [co EXCEPT !.phase = "running", !.gen = @ + 1,
                        !.pending = Workers, !.snapshot = co.population]
    /\ inbox' = [w \in Workers |->
                   [gen |-> co.gen + 1,
                    input |-> EvolveInput(co.population, co.fitnesses)]]
    /\ UNCHANGED <<ct_vars, opt_vars, cost_vars, lib_vars, outbox, w_gen, p_ret>>

\* the search is halted between two generations
PL_Halt ==
    /\ co.phase = "merged"
    /\ co' = [co EXCEPT !.phase = "halted"]
    /\ UNCHANGED <<ct_vars, opt_vars, cost_vars, lib_vars, inbox, outbox, w_gen, p_ret>>

PL_Next ==
    \/ PL_DispatchStart
    \/ PL_BeginStart
    \/ PL_EvaluateStep
    \/ PL_BeginEvolve
    \/ PL_EvolveStep
    \/ PL_Finish
    \/ PL_Receive
    \/ PL_Merge
    \/ PL_DispatchEvolve
    \/ PL_Halt

SpecPool == InitPool /\ [][PL_Next]_vars

\* the step is a step of the loop of an evolve run of worker w
IsEvolveStepOf(w) ==
    /\ w_pc[w] = "evolving"
    /\ (w_i'[w] # w_i[w] \/ w_pc'[w] # w_pc[w])

\* the step is a step of a run of worker w
IsStepOf(w) ==
    \/ w_pc'[w] # w_pc[w]
    \/ w_i'[w] # w_i[w]

\* the step is a merge by the coordinator
IsMerge == co.phase = "running" /\ co'.phase = "merged"

\* C7: the parents of every trial of an evolve run are agents of the
\* population as it stood at the start of the generation, whatever the other
\* workers have replaced since; a step of a worker changes the chunk of no
\* other worker and nothing of the canonical arrays; and a merge writes the
\* chunk of a worker in the index range of that worker.
C7_ParentsFromSnapshot ==
    [][/\ \A w \in Workers : IsEvolveStepOf(w) =>
            LET parents == f_call'[w].parents
            IN  /\ Cardinality(DOMAIN parents) = 3
                /\ (PoolRange(w)[1] + w_i[w]) \notin DOMAIN parents
                /\ \A j \in DOMAIN parents :
                      /\ parents[j] = co.snapshot[j]
                      /\ parents[j] = co.population[j]
       /\ \A w \in Workers : IsStepOf(w) =>
            /\ \A v \in Workers \ {w} : opt'[v] = opt[v]
            /\ co'.population = co.population
            /\ co'.fitnesses = co.fitnesses
            /\ Len(opt'[w].evolver.popChunk) = Cardinality(PoolIndices(w))
       /\ IsMerge =>
            \A w \in Workers : \A j \in PoolIndices(w) :
               /\ co'.population[j] =
                     co.results[w][1].message.popChunk[j - PoolRange(w)[1]]
               /\ co'.fitnesses[j] =
                     co.results[w][1].message.fitChunk[j - PoolRange(w)[1]]]_vars

\* C7 witness: a worker made a trial from a parent of the chunk of another
\* worker, which that worker had replaced in the same generation.
C7_Witness ==
    \E w \in Workers :
       /\ w_run[w].kind = "evolve"
       /\ w_pc[w] \in {"evolving", "finishing"}
       /\ f_call[w].called
       /\ \E j \in DOMAIN f_call[w].parents \ PoolIndices(w) :
             /\ LivePopulation[j] # co.snapshot[j]
             /\ f_call[w].parents[j] = co.snapshot[j]

\* C8: a run request of generation g+1 is posted, and the results of
\* generation g are merged in the canonical population, only when every
\* worker has returned its result of generation g.
C8_GenerationBarrier ==
    [][/\ IsMerge => \A v \in Workers : p_ret[v] = co.gen
       /\ \A w \in Workers :
            (inbox'[w] # inbox[w] /\ inbox'[w] # NoRequest) =>
               \/ inbox'[w].gen = 0
               \/ \A v \in Workers : p_ret[v] = inbox'[w].gen - 1]_vars

\* C8 witness: in generation 1 a worker has returned its result, the other
\* is still running, and the coordinator waits with the population of the
\* start of the generation.
C8_Witness ==
    /\ co.gen = 1
    /\ co.phase = "running"
    /\ p_ret[1] = 1
    /\ w_pc[2] = "evolving"
    /\ co.pending = {2}
    /\ co.population = co.snapshot
    /\ LivePopulation # co.snapshot

-----------------------------------------------------------------------------
(* FlybySequence: the constructor and fromString *)

\* A string is a sequence of characters.  The characters of the strings
\* given to fromString, spaces around them apart.
SeqChars == {"a", "b", "-"}

\* system.orbiting, in its order: the bodies that orbit a body.  The body
\* of id 0 is the star; the bodies 1, 2 and 4 orbit it, the bodies 3 and 5
\* orbit the body 1.  The bodies 1 and 5 share their first two characters.
Orbiting ==
    << [id |-> 1, name |-> <<"a", "a", "b">>, attractor |-> 0],
       [id |-> 2, name |-> <<"a", "b", "a">>, attractor |-> 0],
       [id |-> 3, name |-> <<"b", "a">>, attractor |-> 1],
       [id |-> 4, name |-> <<"b">>, attractor |-> 0],
       [id |-> 5, name |-> <<"a", "a", "a">>, attractor |-> 1] >>

\* system.bodyFromId(id), for the id of an orbiting body
BodyFromId(id) ==
    Orbiting[CHOOSE k \in DOMAIN Orbiting : Orbiting[k].id = id]

\* String.prototype.substring(0, 2)
Substring02(str) == SubSeq(str, 1, Min(2, Len(str)))

\* String.prototype.trim, for the space character
RECURSIVE Trim(_)
Trim(str) ==
    IF str = <<>> THEN <<>>
    ELSE IF Head(str) = " " THEN Trim(Tail(str))
    ELSE IF str[Len(str)] = " " THEN Trim(SubSeq(str, 1, Len(str) - 1))
    ELSE str

\* String.prototype.split(sep): the pieces between the separators, one
\* piece (the empty string) for the empty string
RECURSIVE Split(_, _)
Split(str, sep) ==
    IF \A k \in DOMAIN str : str[k] # sep
      THEN <<str>>
      ELSE LET at == CHOOSE k \in DOMAIN str :
                        /\ str[k] = sep
                        /\ \A m \in 1..(k - 1) : str[m] # sep
           IN  <<SubSeq(str, 1, at - 1)>>
                  \o Split(SubSeq(str, at + 1, Len(str)), sep)

\* joinStrings(strs, sep) of utilities/array.js
RECURSIVE JoinStrings(_, _)
JoinStrings(strs, sep) ==
    IF strs = <<>> THEN <<>>
    ELSE IF Len(strs) = 1 THEN strs[1]
    ELSE strs[1] \o <<sep>> \o JoinStrings(Tail(strs), sep)

\* lines 10-19: new FlybySequence(system, ids)
NewFlybySequence(ids) ==
    LET bodies == [k \in DOMAIN ids |-> BodyFromId(ids[k])]
        initials == [k \in DOMAIN bodies |-> Substring02(bodies[k].name)]
    IN  [kind |-> "sequence", ids |-> ids, bodies |-> bodies,
         length |-> Len(bodies), seqString |-> JoinStrings(initials, "-")]

\* a thrown Error
Thrown(message) == [kind |-> "error", message |-> message]

\* lines 35-46: the first body of system.orbiting, from the k-th on, whose
\* name starts with the initial; 0 when there is none
RECURSIVE FirstMatch(_, _)
FirstMatch(initial, k) ==
    IF k > Len(Orbiting) THEN 0
    ELSE IF Substring02(Orbiting[k].name) = initial THEN k
    ELSE FirstMatch(initial, k + 1)

\* a check of the attractor that lets every body through
AttractorDiffersNever(i, body, attractor) == FALSE

\* lines 37-39: the body is not the first of the sequence and orbits another
\* body than the first
AttractorDiffers(i, body, attractor) ==
    i # 0 /\ body.attractor # attractor

\* line 52
TooShort(ids) == Len(ids) <= 1

\* lines 33-56: the loop over the initials from the i-th on (i from 0), with
\* the ids pushed so far and the attractor, and what follows the loop
RECURSIVE FromStringLoop(_, _, _, _)
FromStringLoop(initials, i, ids, attractor) ==
    IF i >= Len(initials)
      THEN IF TooShort(ids)
             THEN Thrown("The sequence must contain at least two bodies.")
             ELSE NewFlybySequence(ids)
      ELSE LET k == FirstMatch(initials[i + 1], 1)
               body == Orbiting[k]
           IN  IF k = 0
                 THEN Thrown("Invalid custom sequence input.")
               ELSE IF AttractorDiffers(i, body, attractor)
                 THEN Thrown("All bodies of the sequence must orbit around the same body.")
               ELSE FromStringLoop(initials, i + 1, Append(ids, body.id),
                                   IF i = 0 THEN body.attractor ELSE attractor)

\* lines 26-57: FlybySequence.fromString(str, system)
FromString(str) ==
    FromStringLoop(Split(Trim(str), "-"), 0, <<>>, 0)

\* the strings of at most n characters
RECURSIVE StringsUpTo(_)
StringsUpTo(n) ==
    IF n = 0 THEN {<<>>}
    ELSE LET shorter == StringsUpTo(n - 1)
         IN  shorter \cup {Append(str, c) : str \in shorter, c \in SeqChars}

\* the spaces before and after the string
Paddings == {<<>>, <<" ">>}

\* the ids of the orbiting bodies
OrbitingIds == {Orbiting[k].id : k \in DOMAIN Orbiting}

\* the sequences of at most n ids
RECURSIVE IdsUpTo(_)
IdsUpTo(n) ==
    IF n = 0 THEN {<<>>}
    ELSE LET shorter == IdsUpTo(n - 1)
         IN  shorter \cup {Append(ids, id) : ids \in shorter, id \in OrbitingIds}

InitFlyby ==
    /\ CT_Init
    /\ OptIdle
    /\ CostIdle
    /\ PoolIdle
    /\ DimIdle
    /\ OrbitIdle
    /\ NewtonIdle
    /\ TrajIdle
    /\ fs_out = NoFlybyResult
    /\ \/ \E str \in StringsUpTo(MaxStrLen), before \in Paddings, after \in Paddings :
             fs_in = [call |-> "fromString", str |-> before \o str \o after]
       \/ \E ids \in IdsUpTo(MaxIds) :
             fs_in = [call |-> "new", ids |-> ids]

\* the call FlybySequence.fromString(str, system)
FS_FromString ==
    /\ fs_in.call = "fromString"
    /\ fs_out = NoFlybyResult
    /\ fs_out' = FromString(fs_in.str)
    /\ UNCHANGED <<ct_vars, opt_vars, cost_vars, pool_vars, fs_in, dim_vars,
                   orbit_vars, newton_vars,
                   traj_vars>>

\* the call new FlybySequence(system, ids)
FS_New ==
    /\ fs_in.call = "new"
    /\ fs_out = NoFlybyResult
    /\ fs_out' = NewFlybySequence(fs_in.ids)
    /\ UNCHANGED <<ct_vars, opt_vars, cost_vars, pool_vars, fs_in, dim_vars,
                   orbit_vars, newton_vars,
                   traj_vars>>

FS_Next ==
    \/ FS_FromString
    \/ FS_New

SpecFlyby == InitFlyby /\ [][FS_Next]_vars

\* C11: every FlybySequence that exists has at least two bodies, and a call
\* that would make one of fewer than two bodies, by fromString or by the
\* constructor, throws "The sequence must contain at least two bodies.".
C11_AtLeastTwoBodies ==
    /\ fs_out.kind = "sequence" => fs_out.length >= 2
    /\ (fs_out.kind # "none" /\ fs_in.call = "new" /\ Len(fs_in.ids) < 2) =>
          fs_out = Thrown("The sequence must contain at least two bodies.")

\* What fromString does ensure: a sequence it returns has at least two
\* bodies, and a string of one initial of a body makes it throw.
C11_FromStringAtLeastTwoBodies ==
    (fs_in.call = "fromString" /\ fs_out.kind # "none") =>
       /\ fs_out.kind = "sequence" => fs_out.length >= 2
       /\ (Len(fs_in.str) = 2 /\ \E k \in DOMAIN Orbiting :
               Substring02(Orbiting[k].name) = fs_in.str) =>
             fs_out = Thrown("The sequence must contain at least two bodies.")

\* C11 witness: the constructor made a sequence of a single body.
C11_Witness ==
    /\ fs_in.call = "new"
    /\ fs_out.kind = "sequence"
    /\ fs_out.length = 1

\* the body that an initial resolves to: the first of system.orbiting whose
\* name starts with it
Resolves(initial, k) ==
    /\ k \in DOMAIN Orbiting
    /\ Substring02(Orbiting[k].name) = initial
    /\ \A m \in 1..(k - 1) : Substring02(Orbiting[m].name) # initial

\* the initial resolves to no body
Unresolved(initial) ==
    \A k \in DOMAIN Orbiting : Substring02(Orbiting[k].name) # initial

\* the initial resolves to a body that orbits another body than the one the
\* first initial resolves to
OrbitsElsewhere(initials, n) ==
    \E k, first \in DOMAIN Orbiting :
       /\ Resolves(initials[n], k)
       /\ Resolves(initials[1], first)
       /\ Orbiting[k].attractor # Orbiting[first].attractor

\* C12: a sequence returned by fromString has all its bodies around the
\* attractor of its first body; when the first initial that is not right
\* resolves to a body around another attractor, fromString throws "All
\* bodies of the sequence must orbit around the same body.", when it
\* resolves to no body, fromString throws "Invalid custom sequence input.",
\* and a sequence is returned only when every initial is right.
C12_SameAttractor ==
    (fs_in.call = "fromString" /\ fs_out.kind # "none") =>
       LET initials == Split(Trim(fs_in.str), "-")
           wrong == {n \in DOMAIN initials :
                        Unresolved(initials[n]) \/ OrbitsElsewhere(initials, n)}
       IN  /\ fs_out.kind = "sequence" =>
                /\ wrong = {}
                /\ \A n \in DOMAIN fs_out.bodies :
                      fs_out.bodies[n].attractor = fs_out.bodies[1].attractor
           /\ wrong # {} =>
                LET n == CHOOSE m \in wrong : \A o \in wrong : m <= o
                IN  fs_out = IF Unresolved(initials[n])
                        THEN Thrown("Invalid custom sequence input.")
                        ELSE Thrown("All bodies of the sequence must orbit around the same body.")

\* C12 witness: a string of three initials whose third resolves to a body
\* around another attractor made fromString throw.
C12_Witness ==
    /\ fs_in.call = "fromString"
    /\ Len(Split(Trim(fs_in.str), "-")) = 3
    /\ fs_out = Thrown("All bodies of the sequence must orbit around the same body.")
    /\ fs_in.str # Trim(fs_in.str)

-----------------------------------------------------------------------------
(* The dimension of the agents: onWorkerRun, lines 51-52 and 100-108 *)

\* the longest body sequence of a search
MaxSeqLen == 5

\* the dimension as the specification writes it
AgentDimLegsLessOne(sequence) ==
    LET numLegs == Len(sequence) - 1
    IN  3 + 4 * (numLegs - 1) - 2

\* lines 51-52: numLegs and agentDim
AgentDim(sequence) ==
    LET numLegs == Len(sequence) - 1
    IN  3 + numLegs * 4 - 2

\* lines 100-107: the evolution settings, of which the model keeps agentDim
EvolSettings(sequence) == [agentDim |-> AgentDim(sequence)]

\* an agent as the evolver creates it: agentDim values, here all `value`
CreateRandomAgent(evolSettings, value) ==
    [k \in 1..evolSettings.agentDim |-> value]

\* the body sequences of a search: at least two bodies around the star
SearchSequences ==
    {ids \in IdsUpTo(MaxSeqLen) :
        /\ Len(ids) >= 2
        /\ \A k \in DOMAIN ids : BodyFromId(ids[k]).attractor = 0}

InitDim ==
    /\ CT_Init
    /\ OptIdle
    /\ CostIdle
    /\ PoolIdle
    /\ FlybyIdle
    /\ OrbitIdle
    /\ NewtonIdle
    /\ TrajIdle
    /\ d_seq \in SearchSequences
    /\ d_out = NoDimension

\* lines 51-52, 100-108 and 113: the evolver is made for the sequence and
\* creates an agent
D_Start ==
    /\ ~d_out.done
    /\ \E value \in {0, 1} :
          d_out' = [done |-> TRUE, numLegs |-> Len(d_seq) - 1,
                    evolSettings |-> EvolSettings(d_seq),
                    agent |-> CreateRandomAgent(EvolSettings(d_seq), value)]
    /\ UNCHANGED <<ct_vars, opt_vars, cost_vars, pool_vars, flyby_vars, d_seq,
                   orbit_vars, newton_vars,
                   traj_vars>>

\* onWorkerDataPass: another sequence is passed to the worker
D_DataPass ==
    /\ d_out.done
    /\ d_seq' \in SearchSequences
    /\ Len(d_seq') # Len(d_seq)
    /\ d_out' = NoDimension
    /\ UNCHANGED <<ct_vars, opt_vars, cost_vars, pool_vars, flyby_vars,
                   orbit_vars, newton_vars,
                   traj_vars>>

D_Next ==
    \/ D_Start
    \/ D_DataPass

SpecDim == InitDim /\ [][D_Next]_vars

\* C15: the dimension of an agent is 3 + 4*(legs-1) - 2, legs being the
\* number of legs of the trajectory: one less than the number of bodies.
C15_DimensionLegsLessOne ==
    d_out.done =>
       LET legs == Len(d_seq) - 1
       IN  Len(d_out.agent) = 3 + 4 * (legs - 1) - 2

\* C15 amended: the dimension of an agent is 3 + 4*legs - 2, legs being the
\* number of legs of the trajectory: one less than the number of bodies.
C15_DimensionPerLeg ==
    d_out.done =>
       LET legs == Len(d_seq) - 1
       IN  /\ d_out.numLegs = legs
           /\ d_out.evolSettings.agentDim = 3 + 4 * legs - 2
           /\ Len(d_out.agent) = 4 * Len(d_seq) - 3

\* C15 witness: an agent of dimension 5 was created for two bodies, and one
\* of dimension 9 is created for three.
C15_Witness ==
    /\ d_out.done
    /\ Len(d_seq) = 3
    /\ Len(d_out.agent) = 9

-----------------------------------------------------------------------------
(* Orbit: construction and queries *)

\* Numbers are on integer grids. An eccentricity e is stored as e * EccScale,
\* so that "e < 1" reads "eccentricity < EccScale"; lengths are multiples of
\* EccScale^2, which keeps a*(1-e) and a*(1-e^2) exact. An angle counts half
\* degrees: a radian value r is stored as r * 360/pi.
EccScale == 2

\* a floating-point number that a computation yields: Num(v), or the records
\* [kind |-> "nan"] and [kind |-> "inf"]
Num(v) == [kind |-> "num", v |-> v]

\* THREE.MathUtils.degToRad
DegToRad(degrees) == 2 * degrees

Vector3(x, y, z) == [x |-> x, y |-> y, z |-> z]

\* the value of a vector after applyAxisAngle(axis, angle); the rotation is
\* kept as a term
ApplyAxisAngle(vector, axis, angle) ==
    [rotated |-> vector, axis |-> axis, angle |-> angle]

\* new Orbit(data, attractor, config, anglesToRad): the fields of the orbit,
\* its vectors being references into the heap that comes with it
NewOrbit(data, attractor, anglesToRad) ==
    LET semiMajorAxis == data.semiMajorAxis
        eccentricity == data.eccentricity
        cube == Abs(semiMajorAxis) * Abs(semiMajorAxis) * Abs(semiMajorAxis)
        ratio == attractor.stdGravParam \div cube
        periapsis == (semiMajorAxis * (EccScale - eccentricity)) \div EccScale
        inclination ==
            IF anglesToRad THEN DegToRad(data.inclination) ELSE data.inclination
        argOfPeriapsis ==
            IF anglesToRad THEN DegToRad(data.argOfPeriapsis)
            ELSE data.argOfPeriapsis
        ascNodeLongitude ==
            IF anglesToRad THEN DegToRad(data.ascNodeLongitude)
            ELSE data.ascNodeLongitude
        ascNodeDir ==
            ApplyAxisAngle(Vector3(1, 0, 0), Vector3(0, 1, 0),
                           Num(ascNodeLongitude))
        normal == ApplyAxisAngle(Vector3(0, 1, 0), ascNodeDir, Num(inclination))
        \* this.ascNodeDir.clone(): a vector of its own
        periapsisDir == ApplyAxisAngle(ascNodeDir, normal, Num(argOfPeriapsis))
    IN  [orbit |->
            [constructed |-> TRUE,
             attractor |-> attractor,
             semiMajorAxis |-> semiMajorAxis,
             eccentricity |-> eccentricity,
             orbitalParam |->
                 (semiMajorAxis
                    * (EccScale * EccScale - eccentricity * eccentricity))
                 \div (EccScale * EccScale),
             meanMotion |->
                 CHOOSE r \in 0..ratio : r * r <= ratio /\ ratio < (r + 1) * (r + 1),
             periapsis |->
                 IF eccentricity < EccScale
                 THEN [defined |-> TRUE, value |-> periapsis]
                 ELSE [defined |-> FALSE],
             apoapsis |->
                 IF eccentricity < EccScale
                 THEN [defined |-> TRUE, value |-> 2 * semiMajorAxis - periapsis]
                 ELSE [defined |-> FALSE],
             inclination |-> inclination,
             argOfPeriapsis |-> argOfPeriapsis,
             ascNodeLongitude |-> ascNodeLongitude,
             ascNodeDir |-> 1,
             normal |-> 2,
             periapsisDir |-> 3],
         heap |-> <<ascNodeDir, normal, periapsisDir>>]

\* get data()
Data(orbit) ==
    [semiMajorAxis |-> orbit.semiMajorAxis,
     apoapsis |-> orbit.apoapsis,
     periapsis |-> orbit.periapsis,
     eccentricity |-> orbit.eccentricity,
     inclination |-> orbit.inclination,
     argOfPeriapsis |-> orbit.argOfPeriapsis,
     ascNodeLongitude |-> orbit.ascNodeLongitude,
     orbitalParam |-> orbit.orbitalParam,
     meanMotion |-> orbit.meanMotion]

\* the mean anomaly M of solveTrueAnomalyAtDate
MeanAnomaly(orbit, meanAnomaly0, epoch, date) ==
    meanAnomaly0 + orbit.meanMotion * (date - epoch)

\* what solveTrueAnomalyAtDate returns once newton has returned its last
\* iterate x: 2 * atan(sqrt(..) * tan(x/2)) or 2 * atan(sqrt(..) * tanh(x/2)),
\* kept as a term
TrueAnomalyOf(orbit, x) ==
    [twiceAtanOf |-> x,
     of |-> IF orbit.eccentricity < EccScale THEN "tan" ELSE "tanh",
     eccentricity |-> orbit.eccentricity]

\* radius(trueAnomaly): orbitalParam / (1 + eccentricity * cos(trueAnomaly)),
\* kept as a term
Radius(orbit, trueAnomaly) ==
    [orbitalParam |-> orbit.orbitalParam,
     eccentricity |-> orbit.eccentricity,
     cosOf |-> trueAnomaly]

\* positionFromTrueAnomaly acting on this.periapsisDir itself
PositionFromTrueAnomalyInPlace(orbit, heap, trueAnomaly) ==
    LET pos == orbit.periapsisDir
        turned ==
            [heap EXCEPT
                ![pos] = ApplyAxisAngle(@, heap[orbit.normal], trueAnomaly)]
        scaled ==
            [turned EXCEPT
                ![pos] = [scaled |-> @, by |-> Radius(orbit, trueAnomaly)]]
    IN  [heap |-> scaled, pos |-> pos]

\* positionFromTrueAnomaly(trueAnomaly): the heap it leaves and the reference
\* it returns
PositionFromTrueAnomaly(orbit, heap, trueAnomaly) ==
    LET pos == Len(heap) + 1
        cloned == Append(heap, heap[orbit.periapsisDir])
        turned ==
            [cloned EXCEPT
                ![pos] = ApplyAxisAngle(@, cloned[orbit.normal], trueAnomaly)]
        scaled ==
            [turned EXCEPT
                ![pos] = [scaled |-> @, by |-> Radius(orbit, trueAnomaly)]]
    IN  [heap |-> scaled, pos |-> pos]

\* velocityFromTrueAnomaly(trueAnomaly): it makes every vector it uses
VelocityFromTrueAnomaly(orbit, trueAnomaly) ==
    LET vel ==
            [set |-> IF orbit.eccentricity < EccScale
                     THEN "elliptical" ELSE "hyperbolic",
             mu |-> orbit.attractor.stdGravParam,
             a |-> orbit.semiMajorAxis,
             e |-> orbit.eccentricity,
             r |-> Radius(orbit, trueAnomaly),
             nu |-> trueAnomaly]
        right == Vector3(1, 0, 0)
        up == Vector3(0, 1, 0)
        ascNodeDir == ApplyAxisAngle(right, up, Num(orbit.ascNodeLongitude))
    IN  ApplyAxisAngle(
            ApplyAxisAngle(
                ApplyAxisAngle(vel, up, Num(orbit.ascNodeLongitude)),
                up, Num(orbit.argOfPeriapsis)),
            ascNodeDir, Num(orbit.inclination))

\* the values of the iterates of newton
NewtonValues == {Num(0), Num(1), Num(3), [kind |-> "nan"], [kind |-> "inf"]}

OrbitAttractor == [stdGravParam |-> 9 * EccScale * EccScale * EccScale
                                      * EccScale * EccScale * EccScale]

\* elliptical, parabolic and hyperbolic orbits
OrbitData ==
    LET unit == EccScale * EccScale
        shapes ==
            ({unit, 4 * unit} \X (0..(EccScale - 1)))
            \cup {<<unit, EccScale>>}
            \cup ({-unit} \X ((EccScale + 1)..(2 * EccScale - 1)))
    IN  { [semiMajorAxis |-> s[1], eccentricity |-> s[2], inclination |-> i,
           argOfPeriapsis |-> 1, ascNodeLongitude |-> l] :
             s \in shapes, i \in {0, 1}, l \in {0, 1} }

TrueAnomalies == {Num(0), Num(1)}

InitOrbit ==
    /\ CT_Init
    /\ OptIdle
    /\ CostIdle
    /\ PoolIdle
    /\ FlybyIdle
    /\ DimIdle
    /\ NewtonIdle
    /\ TrajIdle
    /\ \E data \in OrbitData, anglesToRad \in BOOLEAN :
          LET new == NewOrbit(data, OrbitAttractor, anglesToRad)
          IN  /\ o_data = [given |-> TRUE, data |-> data,
                           attractor |-> OrbitAttractor,
                           anglesToRad |-> anglesToRad]
              /\ o_orbit = new.orbit
              /\ o_heap = new.heap
    /\ o_call = NoOrbitCall

\* When a method returns, the vectors that the orbit refers to stay on the
\* heap; the others are the caller's or garbage.

O_Data ==
    /\ o_call' = [method |-> "data", result |-> Data(o_orbit)]
    /\ o_heap' = o_heap
    /\ UNCHANGED <<ct_vars, opt_vars, cost_vars, pool_vars, flyby_vars, dim_vars,
                   o_data, o_orbit, newton_vars,
                   traj_vars>>

\* the loop of newton is stepped through in SpecNewton; here x is any value
\* it may end with
O_SolveTrueAnomalyAtDate ==
    /\ \E x \in NewtonValues :
          o_call' = [method |-> "solveTrueAnomalyAtDate",
                     result |-> TrueAnomalyOf(o_orbit, x)]
    /\ o_heap' = o_heap
    /\ UNCHANGED <<ct_vars, opt_vars, cost_vars, pool_vars, flyby_vars, dim_vars,
                   o_data, o_orbit, newton_vars,
                   traj_vars>>

O_PositionFromTrueAnomaly ==
    /\ \E trueAnomaly \in TrueAnomalies :
          LET pos == PositionFromTrueAnomaly(o_orbit, o_heap, trueAnomaly)
          IN  /\ o_call' = [method |-> "positionFromTrueAnomaly",
                            result |-> pos.heap[pos.pos]]
              /\ o_heap' = SubSeq(pos.heap, 1, 3)
    /\ UNCHANGED <<ct_vars, opt_vars, cost_vars, pool_vars, flyby_vars, dim_vars,
                   o_data, o_orbit, newton_vars,
                   traj_vars>>

O_VelocityFromTrueAnomaly ==
    /\ \E trueAnomaly \in TrueAnomalies :
          o_call' = [method |-> "velocityFromTrueAnomaly",
                     result |-> VelocityFromTrueAnomaly(o_orbit, trueAnomaly)]
    /\ o_heap' = o_heap
    /\ UNCHANGED <<ct_vars, opt_vars, cost_vars, pool_vars, flyby_vars, dim_vars,
                   o_data, o_orbit, newton_vars,
                   traj_vars>>

O_Radius ==
    /\ \E trueAnomaly \in TrueAnomalies :
          o_call' = [method |-> "radius",
                     result |-> Radius(o_orbit, trueAnomaly)]
    /\ o_heap' = o_heap
    /\ UNCHANGED <<ct_vars, opt_vars, cost_vars, pool_vars, flyby_vars, dim_vars,
                   o_data, o_orbit, newton_vars,
                   traj_vars>>

O_StateAtDate ==
    /\ \E x \in NewtonValues :
          LET nu == TrueAnomalyOf(o_orbit, x)
              pos == PositionFromTrueAnomaly(o_orbit, o_heap, nu)
              vel == VelocityFromTrueAnomaly(o_orbit, nu)
          IN  /\ o_call' = [method |-> "stateAtDate",
                            result |-> [pos |-> pos.heap[pos.pos], vel |-> vel]]
              /\ o_heap' = SubSeq(pos.heap, 1, 3)
    /\ UNCHANGED <<ct_vars, opt_vars, cost_vars, pool_vars, flyby_vars, dim_vars,
                   o_data, o_orbit, newton_vars,
                   traj_vars>>

O_Next ==
    \/ O_Data
    \/ O_SolveTrueAnomalyAtDate
    \/ O_PositionFromTrueAnomaly
    \/ O_VelocityFromTrueAnomaly
    \/ O_Radius
    \/ O_StateAtDate

SpecOrbit == InitOrbit /\ [][O_Next]_vars

\* C18: after construction and after any calls of its methods, an orbit has a
\* periapsis and an apoapsis exactly when its eccentricity is below 1, they are
\* then a*(1-e) and 2a - periapsis, and the elements and the direction vectors
\* are those that the constructor made of the data given.
C18_OrbitIsImmutable ==
    LET data == o_data.data
        made == NewOrbit(data, o_data.attractor, o_data.anglesToRad)
    IN  o_orbit.constructed =>
           /\ o_orbit.periapsis.defined <=> o_orbit.eccentricity < EccScale
           /\ o_orbit.apoapsis.defined <=> o_orbit.eccentricity < EccScale
           /\ o_orbit.eccentricity < EccScale =>
                 /\ o_orbit.periapsis.value * EccScale
                       = o_orbit.semiMajorAxis * (EccScale - o_orbit.eccentricity)
                 /\ o_orbit.apoapsis.value
                       = 2 * o_orbit.semiMajorAxis - o_orbit.periapsis.value
           /\ o_orbit.semiMajorAxis = data.semiMajorAxis
           /\ o_orbit.eccentricity = data.eccentricity
           /\ o_orbit = made.orbit
           /\ \A dir \in {o_orbit.ascNodeDir, o_orbit.normal, o_orbit.periapsisDir} :
                 o_heap[dir] = made.heap[dir]

C18_Witness ==
    /\ o_call.method = "stateAtDate"
    /\ o_orbit.eccentricity < EccScale
    /\ o_orbit.periapsis.defined
    /\ o_orbit.periapsis.value = 2
    /\ o_orbit.apoapsis.value = 6

-----------------------------------------------------------------------------
(* Orbit.solveTrueAnomalyAtDate, one step of newton at a time *)

\* 1e-15, the unit of the grid that the iterates are on
Tolerance == 1
NewtonCap == 1000

\* Math.abs(x - prevX) > 1e-15 alone
N_LoopConditionUncapped ==
    \/ /\ n_x.kind = "num"
       /\ n_prevX.kind = "num"
       /\ Abs(n_x.v - n_prevX.v) > Tolerance
    \/ {n_x.kind, n_prevX.kind} = {"num", "inf"}

\* Math.abs(x - prevX) > 1e-15 && n < 1000. A difference that is NaN, as one
\* of NaN or of two infinities is, is not above 1e-15; an infinite one is.
N_LoopCondition ==
    /\ \/ /\ n_x.kind = "num"
          /\ n_prevX.kind = "num"
          /\ Abs(n_x.v - n_prevX.v) > Tolerance
       \/ {n_x.kind, n_prevX.kind} = {"num", "inf"}
    /\ n_n < NewtonCap

\* x - f(x) / df(x): any value when x is finite, no finite value otherwise
NewtonStep(x) ==
    IF x.kind = "num" THEN NewtonValues
    ELSE {[kind |-> "nan"], [kind |-> "inf"]}

InitNewton ==
    /\ CT_Init
    /\ OptIdle
    /\ CostIdle
    /\ PoolIdle
    /\ FlybyIdle
    /\ DimIdle
    /\ NewtonIdle
    /\ TrajIdle
    /\ \E data \in OrbitData :
          LET new == NewOrbit(data, OrbitAttractor, TRUE)
          IN  /\ data.semiMajorAxis \in {EccScale * EccScale, -(EccScale * EccScale)}
              /\ data.eccentricity \in {EccScale - 1, EccScale + 1}
              /\ data.inclination = 0
              /\ data.ascNodeLongitude = 0
              /\ o_data = [given |-> TRUE, data |-> data,
                           attractor |-> OrbitAttractor, anglesToRad |-> TRUE]
              /\ o_orbit = new.orbit
              /\ o_heap = new.heap
    /\ o_call = NoOrbitCall

\* solveTrueAnomalyAtDate is called, and newton gets to its loop
N_Call ==
    /\ n_pc \in {"idle", "returned"}
    /\ \E date \in {0, 1} :
          LET M == MeanAnomaly(o_orbit, 0, 0, date)
          IN  /\ n_M' = M
              /\ n_prevX' = Num(M)
              /\ n_x' \in NewtonStep(Num(M))
    /\ n_n' = 0
    /\ n_ret' = [returned |-> FALSE]
    /\ n_pc' = "loop"
    /\ UNCHANGED <<ct_vars, opt_vars, cost_vars, pool_vars, flyby_vars, dim_vars,
                   orbit_vars,
                   traj_vars>>

N_Iterate ==
    /\ n_pc = "loop"
    /\ N_LoopCondition
    /\ n_prevX' = n_x
    /\ n_x' \in NewtonStep(n_x)
    /\ n_n' = n_n + 1
    /\ UNCHANGED <<ct_vars, opt_vars, cost_vars, pool_vars, flyby_vars, dim_vars,
                   orbit_vars, n_pc, n_M, n_ret,
                   traj_vars>>

N_Return ==
    /\ n_pc = "loop"
    /\ ~N_LoopCondition
    /\ n_ret' = [returned |-> TRUE, value |-> TrueAnomalyOf(o_orbit, n_x)]
    /\ n_pc' = "returned"
    /\ UNCHANGED <<ct_vars, opt_vars, cost_vars, pool_vars, flyby_vars, dim_vars,
                   orbit_vars, n_M, n_n, n_prevX, n_x,
                   traj_vars>>

N_Next ==
    \/ N_Call
    \/ N_Iterate
    \/ N_Return

\* the call runs on once it has begun: nothing but its own loop holds it up
SpecNewton ==
    InitNewton /\ [][N_Next]_vars /\ WF_vars(N_Iterate) /\ WF_vars(N_Return)

N_Converged ==
    /\ n_x.kind = "num"
    /\ n_prevX.kind = "num"
    /\ Abs(n_x.v - n_prevX.v) <= Tolerance

\* C17: solveTrueAnomalyAtDate always terminates: its loop iterates at most
\* 1000 times, it stops as soon as two successive iterates differ by no more
\* than 1e-15, and every call returns the value computed from the last
\* iterate, converged or not.
C17_SolverTerminates ==
    /\ [][n_n' <= NewtonCap]_vars
    /\ [][(n_pc = "loop" /\ N_Converged) => n_pc' = "returned"]_vars
    /\ [][(n_pc = "loop" /\ n_pc' = "returned") =>
             n_ret' = [returned |-> TRUE, value |-> TrueAnomalyOf(o_orbit, n_x)]]_vars
    /\ (n_pc = "loop") ~> (n_pc = "returned")

C17_Witness ==
    /\ n_pc = "returned"
    /\ n_n = NewtonCap
    /\ n_x = Num(3)
    /\ n_prevX = Num(0)
    /\ n_ret.returned

-----------------------------------------------------------------------------
(* Trajectory: draw, the result panel and the pod *)

MaxSteps == 3
MaxDuration == 2
MaxDrawSteps == 3
MaxDraws == 2

\* what a step carries besides its dates: an optional flyby record and an
\* optional maneuvre record. A maneuvre's deltaVToPrevStep is given in the
\* frame of its prograde, normal and radial directions.
NoRecords ==
    [flyby |-> FALSE, maneuvre |-> FALSE, context |-> "none",
     deltaVToPrevStep |-> <<0, 0, 0>>]
StepRecords ==
    { NoRecords,
      [NoRecords EXCEPT !.flyby = TRUE],
      [NoRecords EXCEPT !.maneuvre = TRUE, !.context = "ejection",
                        !.deltaVToPrevStep = <<1, 0, 0>>],
      [NoRecords EXCEPT !.flyby = TRUE, !.maneuvre = TRUE, !.context = "dsm",
                        !.deltaVToPrevStep = <<0, 2, 0>>] }

\* the bodies that have a group of objects in the scene
AttractorIds == {1, 2}

\* the trajectories of n steps: each step begins when the one before it ends,
\* and the departure date is 1; each flyby is around a body of its own
RECURSIVE StepsOfLength(_, _, _, _)
StepsOfLength(n, durations, records, attractors) ==
    IF n = 0 THEN {<<>>}
    ELSE { Append(steps,
                  [dateOfStart |->
                      IF steps = <<>> THEN 1
                      ELSE steps[Len(steps)].dateOfStart
                              + steps[Len(steps)].duration,
                   duration |-> duration,
                   attractorId |-> attractorId,
                   flyby |-> record.flyby,
                   flybyBodyId |-> IF record.flyby THEN n ELSE 0,
                   maneuvre |-> record.maneuvre,
                   context |-> record.context,
                   deltaVToPrevStep |-> record.deltaVToPrevStep]) :
             steps \in StepsOfLength(n - 1, durations, records, attractors),
             duration \in durations,
             record \in records,
             attractorId \in attractors }

\* steps of every duration, for the place of the pod
TrajectorySteps ==
    UNION { StepsOfLength(n, 0..MaxDuration,
                          {r \in StepRecords : ~r.maneuvre}, {1}) :
              n \in 2..MaxSteps }

\* steps with every choice of records, for what draw() makes of them
DrawSteps ==
    UNION { StepsOfLength(n, {1}, StepRecords, {1}) : n \in 2..MaxDrawSteps }

\* steps with every choice of records, around either body, for the sprites
PodSteps ==
    UNION { StepsOfLength(n, {1}, StepRecords, AttractorIds) :
              n \in 2..MaxDrawSteps }

\* systemTime.dateSeconds: from before the departure to after the arrival
DateSeconds == 0..(2 + MaxSteps * MaxDuration)

\* the object made for step i (counting from 0) by the d-th call of draw
SceneObject(material, i, d) == [material |-> material, step |-> i, draw |-> d]

\* _createTrajectoryArcs: _orbitObjects
CreateTrajectoryArcs(steps, d) ==
    [i \in 1..Len(steps) |-> SceneObject("orbitLine", i - 1, d)]

\* _createManeuvreSprites: _spriteObjects, the pod pushed last to the list of
\* step 0
CreateManeuvreSprites(steps, d) ==
    [i \in 1..Len(steps) |->
        (IF steps[i].maneuvre
         THEN IF steps[i].context = "ejection"
              THEN <<SceneObject("maneuver", i - 1, d),
                     SceneObject("escape", i - 1, d)>>
              ELSE <<SceneObject("maneuver", i - 1, d)>>
         ELSE IF steps[i].flyby
         THEN <<SceneObject("encounter", i - 1, d),
                SceneObject("escape", i - 1, d)>>
         ELSE IF i - 1 = Len(steps) - 2
         THEN <<SceneObject("encounter", i - 1, d)>>
         ELSE <<>>)
        \o (IF i = 1 THEN <<SceneObject("pod", 0, d)>> ELSE <<>>)]

\* the groups of the scene once the arcs and the sprites of a call of draw
\* are added, each to the group of the attractor of its step
GroupsAdd(groups, steps, orbitObjects, spriteObjects) ==
    [b \in DOMAIN groups |->
        LET around == {i \in 1..Len(steps) : steps[i].attractorId = b}
        IN  groups[b]
              \cup {orbitObjects[i] : i \in around}
              \cup UNION { {spriteObjects[i][j] : j \in 1..Len(spriteObjects[i])} :
                             i \in around }]

\* length() of a THREE.Vector3, for the vectors along an axis
VectorLength(x, y, z) ==
    CHOOSE r \in 0..(Abs(x) + Abs(y) + Abs(z)) : r * r = x * x + y * y + z * z

\* _calculateManeuvresDetails: the records it pushes to maneuvres
CalculateManeuvresDetails(steps) ==
    LET with == SelectSeq([i \in 1..Len(steps) |-> i],
                          LAMBDA i : steps[i].maneuvre)
    IN  [j \in 1..Len(with) |->
            LET step == steps[with[j]]
                deltaV == step.deltaVToPrevStep
            IN  [stepIndex |-> with[j] - 1,
                 dateMET |-> step.dateOfStart - steps[1].dateOfStart,
                 progradeDV |-> deltaV[1],
                 normalDV |-> deltaV[2],
                 radialDV |-> deltaV[3],
                 totalDV |-> VectorLength(deltaV[1], deltaV[2], deltaV[3]),
                 ejectAngle |-> step.context = "ejection"]]

\* _calculateFlybyDetails: the records it pushes to flybys
CalculateFlybyDetails(steps) ==
    LET with == SelectSeq([i \in 1..Len(steps) |-> i],
                          LAMBDA i : steps[i].flyby)
    IN  [j \in 1..Len(with) |->
            [bodyId |-> steps[with[j]].flybyBodyId,
             soiEnterDateMET |-> steps[with[j]].dateOfStart - steps[1].dateOfStart]]

\* get totalDeltaV
RECURSIVE ManeuvresTotalDeltaV(_)
ManeuvresTotalDeltaV(maneuvres) ==
    IF maneuvres = <<>> THEN 0
    ELSE VectorLength(Head(maneuvres).progradeDV, Head(maneuvres).normalDV,
                      Head(maneuvres).radialDV)
           + ManeuvresTotalDeltaV(Tail(maneuvres))

\* the loop of fillResultControls from step i on (counting from 0): the
\* options of the selector, each with the details record it names
RECURSIVE SelectorOptions(_, _, _, _, _, _)
SelectorOptions(steps, maneuvres, flybys, i, maneuvreIdx, flybyIdx) ==
    IF i >= Len(steps) THEN <<>>
    ELSE IF steps[i + 1].maneuvre
    THEN LET details == maneuvres[maneuvreIdx + 1]
             step == steps[details.stepIndex + 1]
         IN  <<[index |-> i, type |-> "maneuver", origin |-> maneuvreIdx,
                text |-> step.context, details |-> details]>>
               \o SelectorOptions(steps, maneuvres, flybys, i + 1,
                                  maneuvreIdx + 1, flybyIdx)
    ELSE IF steps[i + 1].flyby
    THEN LET details == flybys[flybyIdx + 1]
         IN  <<[index |-> i, type |-> "flyby", origin |-> flybyIdx,
                text |-> details.bodyId, details |-> details]>>
               \o SelectorOptions(steps, maneuvres, flybys, i + 1,
                                  maneuvreIdx, flybyIdx + 1)
    ELSE SelectorOptions(steps, maneuvres, flybys, i + 1, maneuvreIdx, flybyIdx)

\* the loop of trajectoryToText from step i on (counting from 0): what is
\* written for each step, with the details record it is written from
RECURSIVE TextEntries(_, _, _, _, _, _)
TextEntries(steps, maneuvres, flybys, i, maneuvreIdx, flybyIdx) ==
    IF i >= Len(steps) THEN <<>>
    ELSE IF steps[i + 1].maneuvre
    THEN LET step == steps[i + 1]
             details == maneuvres[maneuvreIdx + 1]
         IN  <<[index |-> i, type |-> "maneuver",
                text |-> step.context, details |-> details]>>
               \o TextEntries(steps, maneuvres, flybys, i + 1,
                              maneuvreIdx + 1, flybyIdx)
    ELSE IF steps[i + 1].flyby
    THEN LET details == flybys[flybyIdx + 1]
         IN  <<[index |-> i, type |-> "flyby",
                text |-> details.bodyId, details |-> details]>>
               \o TextEntries(steps, maneuvres, flybys, i + 1,
                              maneuvreIdx, flybyIdx + 1)
    ELSE TextEntries(steps, maneuvres, flybys, i + 1, maneuvreIdx, flybyIdx)

\* the loop of updatePodPosition from index i on, indices counting from 0:
\* the value of i when it ends
RECURSIVE PodLoop(_, _, _, _)
PodLoop(steps, date, k, i) ==
    IF i < Len(steps) - k
    THEN LET dateOfStart == steps[i + 1].dateOfStart
             duration == steps[i + 1].duration
         IN  IF date >= dateOfStart /\ date < dateOfStart + duration
             THEN i
             ELSE PodLoop(steps, date, k, i + 1)
    ELSE i

\* the date clamped and the index of the step chosen for the pod
PodStep(steps, dateSeconds) ==
    LET lastStep == steps[Len(steps)]
        missionStart == steps[1].dateOfStart
        missionEnd == lastStep.dateOfStart + lastStep.duration
        date ==
            IF dateSeconds < missionStart THEN missionStart
            ELSE IF dateSeconds > missionEnd THEN missionEnd
            ELSE dateSeconds
        k == IF lastStep.flyby THEN 0 ELSE 1
    IN  [date |-> date,
         i |-> Min(PodLoop(steps, date, k, 1), Len(steps) - k - 1)]

\* draw(), the d-th call of it: what it leaves in the trajectory and in the
\* scene. The lists of objects are made anew, maneuvres and flybys are
\* pushed to.
DrawTrajectory(steps, groups, maneuvres, flybys, d) ==
    LET orbitObjects == CreateTrajectoryArcs(steps, d)
        spriteObjects == CreateManeuvreSprites(steps, d)
    IN  [orbitObjects |-> orbitObjects,
         spriteObjects |-> spriteObjects,
         podSpriteIndex |-> 0,
         groups |-> GroupsAdd(groups, steps, orbitObjects, spriteObjects),
         maneuvres |-> maneuvres \o CalculateManeuvresDetails(steps),
         flybys |-> flybys \o CalculateFlybyDetails(steps)]

\* sprites.shift(): the first sprite of a list, and the rest
Shift(sprites) == [sprite |-> Head(sprites), rest |-> Tail(sprites)]

\* sprites.pop(): the last sprite of a list, and the rest
Pop(sprites) ==
    [sprite |-> sprites[Len(sprites)],
     rest |-> SubSeq(sprites, 1, Len(sprites) - 1)]

\* a trajectory that has been drawn once
InitTrajectory ==
    /\ CT_Init
    /\ OptIdle
    /\ CostIdle
    /\ PoolIdle
    /\ FlybyIdle
    /\ DimIdle
    /\ OrbitIdle
    /\ NewtonIdle
    /\ t_steps \in TrajectorySteps
    /\ LET drawn == DrawTrajectory(t_steps, [b \in AttractorIds |-> {}], <<>>, <<>>, 1)
       IN  /\ t_orbitObjects = drawn.orbitObjects
           /\ t_spriteObjects = drawn.spriteObjects
           /\ t_podSpriteIndex = drawn.podSpriteIndex
           /\ t_groups = drawn.groups
           /\ t_maneuvres = drawn.maneuvres
           /\ t_flybys = drawn.flybys
    /\ t_draws = 1
    /\ t_call = NoPodCall
    /\ t_options = NoOptions
    /\ t_text = NoText

\* a trajectory with sprites of every kind that has been drawn once
InitPod ==
    /\ CT_Init
    /\ OptIdle
    /\ CostIdle
    /\ PoolIdle
    /\ FlybyIdle
    /\ DimIdle
    /\ OrbitIdle
    /\ NewtonIdle
    /\ t_steps \in PodSteps
    /\ LET drawn == DrawTrajectory(t_steps, [b \in AttractorIds |-> {}],
                                   <<>>, <<>>, 1)
       IN  /\ t_orbitObjects = drawn.orbitObjects
           /\ t_spriteObjects = drawn.spriteObjects
           /\ t_podSpriteIndex = drawn.podSpriteIndex
           /\ t_groups = drawn.groups
           /\ t_maneuvres = drawn.maneuvres
           /\ t_flybys = drawn.flybys
    /\ t_draws = 1
    /\ t_call = NoPodCall
    /\ t_options = NoOptions
    /\ t_text = NoText

\* a trajectory that has been constructed and not drawn yet
InitDraw ==
    /\ CT_Init
    /\ OptIdle
    /\ CostIdle
    /\ PoolIdle
    /\ FlybyIdle
    /\ DimIdle
    /\ OrbitIdle
    /\ NewtonIdle
    /\ t_steps \in DrawSteps
    /\ t_orbitObjects = <<>>
    /\ t_spriteObjects = <<>>
    /\ t_podSpriteIndex = 0
    /\ t_groups = [b \in AttractorIds |-> {}]
    /\ t_maneuvres = <<>>
    /\ t_flybys = <<>>
    /\ t_draws = 0
    /\ t_call = NoPodCall
    /\ t_options = NoOptions
    /\ t_text = NoText

T_Draw ==
    /\ t_steps # <<>>
    /\ t_draws < MaxDraws
    /\ LET drawn == DrawTrajectory(t_steps, t_groups, t_maneuvres, t_flybys, t_draws + 1)
       IN  /\ t_orbitObjects' = drawn.orbitObjects
           /\ t_spriteObjects' = drawn.spriteObjects
           /\ t_podSpriteIndex' = drawn.podSpriteIndex
           /\ t_groups' = drawn.groups
           /\ t_maneuvres' = drawn.maneuvres
           /\ t_flybys' = drawn.flybys
    /\ t_draws' = t_draws + 1
    /\ UNCHANGED <<ct_vars, opt_vars, cost_vars, pool_vars, flyby_vars, dim_vars,
                   orbit_vars, newton_vars, t_steps, t_call, t_options, t_text>>

T_UpdatePodPosition ==
    /\ t_steps # <<>>
    /\ t_draws >= 1
    /\ \E dateSeconds \in DateSeconds :
          LET chosen == PodStep(t_steps, dateSeconds)
              i == chosen.i
              cur == t_podSpriteIndex + 1
              popped == Pop(t_spriteObjects[cur])
              pod == popped.sprite
              curAttrId == t_steps[cur].attractorId
              newAttrId == t_steps[i + 1].attractorId
              removed == [t_spriteObjects EXCEPT ![cur] = popped.rest]
              \* curGroup.remove(pod)
              left == [t_groups EXCEPT ![curAttrId] = @ \ {pod}]
          IN  /\ t_spriteObjects' = [removed EXCEPT ![i + 1] = Append(@, pod)]
              /\ t_podSpriteIndex' = i
              \* newGroup.add(pod) takes the pod from the group it is in
              /\ t_groups' = [b \in DOMAIN left |->
                                 IF b = newAttrId THEN left[b] \cup {pod}
                                 ELSE left[b] \ {pod}]
              /\ t_call' = [called |-> TRUE,
                            dateSeconds |-> dateSeconds,
                            date |-> chosen.date,
                            i |-> i,
                            position |-> [orbit |-> i,
                                          epoch |-> t_steps[i + 1].dateOfStart,
                                          date |-> chosen.date]]
    /\ UNCHANGED <<ct_vars, opt_vars, cost_vars, pool_vars, flyby_vars, dim_vars,
                   orbit_vars, newton_vars, t_steps, t_orbitObjects,
                   t_maneuvres, t_flybys, t_draws, t_options, t_text>>

T_FillResultControls ==
    /\ t_steps # <<>>
    /\ t_draws >= 1
    /\ t_options' =
          [filled |-> TRUE,
           totalDeltaV |-> ManeuvresTotalDeltaV(t_maneuvres),
           options |-> SelectorOptions(t_steps, t_maneuvres, t_flybys, 0, 0, 0)]
    /\ UNCHANGED <<ct_vars, opt_vars, cost_vars, pool_vars, flyby_vars, dim_vars,
                   orbit_vars, newton_vars, t_steps, t_spriteObjects,
                   t_podSpriteIndex, t_call, t_orbitObjects, t_groups,
                   t_maneuvres, t_flybys, t_draws, t_text>>

T_TrajectoryToText ==
    /\ t_steps # <<>>
    /\ t_draws >= 1
    /\ t_text' =
          [written |-> TRUE,
           draws |-> t_draws,
           totalDeltaV |-> ManeuvresTotalDeltaV(t_maneuvres),
           entries |-> TextEntries(t_steps, t_maneuvres, t_flybys, 0, 0, 0)]
    /\ UNCHANGED <<ct_vars, opt_vars, cost_vars, pool_vars, flyby_vars, dim_vars,
                   orbit_vars, newton_vars, t_steps, t_spriteObjects,
                   t_podSpriteIndex, t_call, t_orbitObjects, t_groups,
                   t_maneuvres, t_flybys, t_draws, t_options>>

T_Next ==
    \/ T_UpdatePodPosition

SpecTrajectory == InitTrajectory /\ [][T_Next]_vars

SpecPod == InitPod /\ [][T_Next]_vars

TD_Next ==
    \/ T_Draw
    \/ T_FillResultControls
    \/ T_TrajectoryToText

SpecDraw == InitDraw /\ [][TD_Next]_vars

\* the pod is at step s at the date
PodIsAt(s, date) ==
    /\ date >= t_steps[s + 1].dateOfStart
    /\ date < t_steps[s + 1].dateOfStart + t_steps[s + 1].duration

\* C20: updatePodPosition puts the pod on the step where the pod is at the
\* selected date: with the date clamped to the time of the mission, whenever
\* the date is within some step, it is within the step chosen, for every
\* trajectory of at least two steps.
C20_PodOnStepOfDate ==
    (t_call.called /\ Len(t_steps) >= 2) =>
       LET lastStep == t_steps[Len(t_steps)]
           date == Max(t_steps[1].dateOfStart,
                       Min(t_call.dateSeconds,
                           lastStep.dateOfStart + lastStep.duration))
       IN  (\E s \in 0..(Len(t_steps) - 1) : PodIsAt(s, date))
              => PodIsAt(t_podSpriteIndex, date)

\* the date is within the first step, and the pod is put on the second
C20_Witness ==
    /\ t_call.called
    /\ Len(t_steps) = 2
    /\ t_steps[2].flyby
    /\ t_steps[1].duration = 2
    /\ t_call.dateSeconds = 2
    /\ t_call.date = 2
    /\ PodIsAt(0, 2)
    /\ t_podSpriteIndex = 1
    /\ ~PodIsAt(1, 2)

\* the entry made at a step is made from the details of that very step
OwnDetails(entry) ==
    /\ entry.type = "flyby" =>
          entry.details.bodyId = t_steps[entry.index + 1].flybyBodyId
    /\ entry.type = "maneuver" => entry.details.stepIndex = entry.index

\* C21: in fillResultControls and in trajectoryToText, the flyby entry made
\* at step i uses the flyby details whose bodyId is that of the flyby of
\* step i, and the maneuver entry made at step i uses the maneuver details
\* whose stepIndex is i, whatever records the steps carry.
C21_EntriesShowOwnStep ==
    /\ t_options.filled =>
          \A n \in 1..Len(t_options.options) : OwnDetails(t_options.options[n])
    /\ t_text.written =>
          \A n \in 1..Len(t_text.entries) : OwnDetails(t_text.entries[n])

\* the first step has a maneuvre and a flyby, the second a flyby only: the
\* entry of the second step shows the flyby of the first
C21_Witness ==
    /\ t_draws = 1
    /\ t_options.filled
    /\ t_text.written
    /\ Len(t_steps) = 2
    /\ t_steps[1].maneuvre /\ t_steps[1].flyby
    /\ ~t_steps[2].maneuvre /\ t_steps[2].flyby
    /\ t_options.options[2].type = "flyby"
    /\ t_options.options[2].index = 1
    /\ t_options.options[2].details.bodyId = t_steps[1].flybyBodyId
    /\ t_text.entries[2].details.bodyId = t_steps[1].flybyBodyId
    /\ t_steps[1].flybyBodyId # t_steps[2].flybyBodyId

\* the steps that carry a maneuvre record, and those that carry a flyby
\* record, counting from 0
ManeuvreSteps == {i \in 0..(Len(t_steps) - 1) : t_steps[i + 1].maneuvre}
FlybySteps == {i \in 0..(Len(t_steps) - 1) : t_steps[i + 1].flyby}

\* the sum of the magnitudes of the delta-V of the maneuvers of the steps
\* from index i on
RECURSIVE SumOfDeltaVs(_)
SumOfDeltaVs(i) ==
    IF i > Len(t_steps) THEN 0
    ELSE (IF t_steps[i].maneuvre
          THEN Abs(t_steps[i].deltaVToPrevStep[1])
                 + Abs(t_steps[i].deltaVToPrevStep[2])
                 + Abs(t_steps[i].deltaVToPrevStep[3])
          ELSE 0)
         + SumOfDeltaVs(i + 1)

\* C22: after one or more calls of draw(), maneuvres has one record for each
\* step with a maneuvre, in the order of the steps, flybys has one record for
\* each step with a flyby, and totalDeltaV is the sum of the magnitudes of the
\* delta-V of the maneuvers, each counted once.
C22_DetailsOncePerStep ==
    t_draws >= 1 =>
       /\ Len(t_maneuvres) = Cardinality(ManeuvreSteps)
       /\ \A n \in 1..Len(t_maneuvres) :
             /\ t_maneuvres[n].stepIndex \in ManeuvreSteps
             /\ \A m \in 1..(n - 1) :
                   t_maneuvres[m].stepIndex < t_maneuvres[n].stepIndex
       /\ Len(t_flybys) = Cardinality(FlybySteps)
       /\ ManeuvresTotalDeltaV(t_maneuvres) = SumOfDeltaVs(1)
       /\ t_text.written /\ t_text.draws = t_draws =>
             t_text.totalDeltaV = SumOfDeltaVs(1)

\* after two calls of draw() each maneuver is there twice, and the total
\* delta-V written is twice the sum
C22_Witness ==
    /\ t_draws = 2
    /\ Cardinality(ManeuvreSteps) = 2
    /\ Len(t_maneuvres) = 4
    /\ Len(t_flybys) = 2 * Cardinality(FlybySteps)
    /\ t_text.written
    /\ t_text.draws = 2
    /\ SumOfDeltaVs(1) = 3
    /\ t_text.totalDeltaV = 6

\* what holds of maneuvres and flybys: the records of one call of draw(), as
\* many times over as draw() was called
C22_DetailsOncePerDraw ==
    /\ Len(t_maneuvres) = t_draws * Cardinality(ManeuvreSteps)
    /\ Len(t_flybys) = t_draws * Cardinality(FlybySteps)
    /\ ManeuvresTotalDeltaV(t_maneuvres) = t_draws * SumOfDeltaVs(1)
    /\ \A n \in 1..Len(t_maneuvres) :
          \A m \in 1..Len(t_maneuvres) :
             (m - n) % Max(1, Cardinality(ManeuvreSteps)) = 0 =>
                t_maneuvres[m] = t_maneuvres[n]

\* the pod of the trajectory, and the sprites of a list
ThePod == SceneObject("pod", 0, 1)
SpritesOf(list) == {list[j] : j \in 1..Len(list)}

\* C23: after draw() and any calls of updatePodPosition on a trajectory of at
\* least two steps, the pod is in the list of sprites of one step only, last
\* in the list of step _podSpriteIndex, which is the index of a step; it is
\* in the scene group of the attractor of that step and in no other; and the
\* maneuver, encounter and escape sprites are all still in the list of their
\* step and in the group of its attractor.
C23_PodInOnePlace ==
    Len(t_steps) >= 2 =>
       /\ t_podSpriteIndex \in 0..(Len(t_steps) - 1)
       /\ \A i \in 1..Len(t_steps) :
             LET list == t_spriteObjects[i]
                 made == CreateManeuvreSprites(t_steps, 1)[i]
                 others == SelectSeq(list, LAMBDA sprite : sprite # ThePod)
             IN  /\ ThePod \in SpritesOf(list) <=> i = t_podSpriteIndex + 1
                 /\ i = t_podSpriteIndex + 1 =>
                       /\ list[Len(list)] = ThePod
                       /\ Len(others) = Len(list) - 1
                 /\ others = SelectSeq(made, LAMBDA sprite : sprite # ThePod)
                 /\ SpritesOf(others) \subseteq t_groups[t_steps[i].attractorId]
       /\ \A b \in DOMAIN t_groups :
             ThePod \in t_groups[b]
                <=> b = t_steps[t_podSpriteIndex + 1].attractorId

\* the pod has gone from step 0, which keeps its two sprites, to the step of
\* a flyby around the other body
C23_Witness ==
    /\ t_call.called
    /\ Len(t_steps) = 3
    /\ t_steps[1].maneuvre /\ t_steps[1].context = "ejection"
    /\ t_steps[1].attractorId = 1
    /\ t_steps[2].attractorId = 2
    /\ t_steps[2].flyby
    /\ t_podSpriteIndex = 1
    /\ Len(t_spriteObjects[1]) = 2
    /\ Len(t_spriteObjects[2]) = 3
    /\ ThePod \in t_groups[2]
    /\ ThePod \notin t_groups[1]

-----------------------------------------------------------------------------
(* The cost formula on its own *)

CostAgents == GoodAgents({0, 1, 2}, {-1, 0, 2}, {1, 2, 3}, {-1, 0, 1})

InitCost ==
    /\ CT_Init
    /\ OptIdle
    /\ PoolIdle
    /\ LibIdle
    /\ c_in \in [given : {TRUE}, agent : CostAgents, settings : SettingsSpace]
    /\ c_out = NotComputed

\* lines 62-91 applied to the trajectory of c_in.agent
C_Cost ==
    /\ c_in.given
    /\ c_out = NotComputed
    /\ LET trajectory == Assembled(c_in.agent)
       IN  c_out' = [done |-> TRUE,
                     cost |-> FitnessCost(trajectory, c_in.settings),
                     periVelCost |-> PeriVelCost(trajectory, c_in.settings),
                     durationCost |-> DurationCost(trajectory, c_in.settings)]
    /\ UNCHANGED <<c_in, ct_vars, opt_vars, pool_vars, lib_vars>>

\* another trajectory is given to the formula
C_Give ==
    /\ c_out.done
    /\ c_in' \in [given : {TRUE}, agent : CostAgents, settings : SettingsSpace]
    /\ c_out' = NotComputed
    /\ UNCHANGED <<ct_vars, opt_vars, pool_vars, lib_vars>>

C_Next == C_Cost \/ C_Give

SpecCost == InitCost /\ [][C_Next]_vars

\* C10: the duration term is max(0, totalDuration - maxDuration) * totalDeltaV,
\* zero when the duration is within the limit and positive when it is above
\* the limit with a positive delta-V; the insertion term is zero when
\* noInsertion is false, and then the cost (in tenths) is
\* 10 * totalDeltaV + totalDeltaV * |inclination| + 10 * duration term.
C10_DurationAndInsertionTerms ==
    c_out.done =>
      LET a == c_in.agent
          s == c_in.settings
          over == IF a.dur > s.maxDuration THEN a.dur - s.maxDuration ELSE 0
          absInc == IF a.inc < 0 THEN 0 - a.inc ELSE a.inc
      IN  /\ c_out.durationCost = over * a.dv
          /\ a.dur <= s.maxDuration => c_out.durationCost = 0
          /\ (a.dur > s.maxDuration /\ a.dv > 0) => c_out.durationCost > 0
          /\ ~s.noInsertion => c_out.periVelCost = 0
          /\ ~s.noInsertion =>
                c_out.cost = 10 * a.dv + a.dv * absInc + 10 * c_out.durationCost

\* C10 witness: a cost was computed for a trajectory longer than the limit,
\* with a positive delta-V, inclined, without the insertion term.
C10_Witness ==
    /\ c_out.done
    /\ c_in.agent.dur > c_in.settings.maxDuration
    /\ c_in.agent.dv > 0
    /\ c_in.agent.inc < 0
    /\ ~c_in.settings.noInsertion
    /\ c_out.durationCost > 0

====
